---- MODULE Spec2Model ----
(***************************************************************************)
(* Model of the on-site job runner (JobRun / StepRunner) and the asset     *)
(* store (AssetStore) of the proof_of_concept package.                     *)
(*                                                                         *)
(* A fixed two-step workflow  A -> B  is run at two sites.  Every site has  *)
(* one AssetStore; job runs are threads started by StepRunner.execute_job. *)
(***************************************************************************)
EXTENDS Naturals, FiniteSets, Sequences, TLC

\* ------------------------------------------------------------------ bounds

\* Number of JobRun threads that may be started in one behaviour.
MaxRuns == 2

Runs == 1..MaxRuns

\* Number of events the replication archive of the registry may hold.
MaxEvents == 3

\* The last instant of the clock.
MaxTime == 3

\* ------------------------------------------------------- identifiers, sites

\* The namespace all parties, sites and assets are in.
Namespace == "ns"

SiteNames == {"s1", "s2"}

\* Site identifiers 'site:<namespace>:<name>'.
SiteId(name) == "site:" \o Namespace \o ":" \o name

Site1 == SiteId("s1")

Site2 == SiteId("s2")

Sites == {Site1, Site2}

\* Payloads a primary data asset may be stored with.
Payloads == {"d1", "d2"}

\* Asset identifiers 'asset:<namespace>:<name>:<site_namespace>:<site_name>'.
AssetId(name, site_name) ==
    "asset:" \o Namespace \o ":" \o name \o ":" \o Namespace \o ":"
        \o site_name

AssetNames == {"x", "comp"}

DataAssetId == AssetId("x", "s1")

ComputeAssetId == AssetId("comp", "s1")

PrimaryAssets == {DataAssetId, ComputeAssetId}

\* Identifier.location() of the asset identifiers in use:
\* 'site:{parts[3]}:{parts[4]}'.
LocationOf ==
    [a \in PrimaryAssets |->
        SiteId(CHOOSE s \in SiteNames :
                   \E n \in AssetNames : AssetId(n, s) = a)]

location(asset_id) == LocationOf[asset_id]

\* Identifier.from_id_hash(): 'result:<id_hash>'.
from_id_hash(id_hash) == "result:" \o id_hash

\* ----------------------------------------------------------------- workflow

StepNames == {"A", "B"}

\* WorkflowStep.inputs as the sequence of (name, source) pairs that
\* step.inputs.items() iterates over; a source is '<step>.<output>' or a
\* workflow input key.
step_inputs(step) ==
    IF step = "A" THEN << <<"x1", "in1">> >>
                  ELSE << <<"x1", "A.y">>, <<"x2", "in1">> >>

\* WorkflowStep.outputs, in the order the compute asset returns them.
step_outputs(step) == IF step = "A" THEN <<"y", "z">> ELSE <<"y">>

\* WorkflowStep.compute_asset_id.
compute_asset_id(step) == ComputeAssetId

WorkflowInputs == {"in1"}

\* Job.inputs: workflow input key -> asset identifier.
job_inputs == [key \in WorkflowInputs |-> DataAssetId]

Range(seq) == {seq[i] : i \in DOMAIN seq}

InputNames(step) == {p[1] : p \in Range(step_inputs(step))}

OutputNames == UNION {Range(step_outputs(s)) : s \in StepNames}

StepOutputs ==
    {p \in StepNames \X OutputNames : p[2] \in Range(step_outputs(p[1]))}

StepInputs ==
    UNION {{<<s, i>> : i \in InputNames(s)} : s \in StepNames}

\* '{}.{}'.format(step.name, name)
Item(step, name) == step \o "." \o name

OutputItems == {Item(p[1], p[2]) : p \in StepOutputs}

InputItems == {Item(p[1], p[2]) : p \in StepInputs}

\* "inp_src.split('.')" for the sources and items of the workflow.
SplitTable ==
    [src \in OutputItems \cup InputItems |->
        CHOOSE p \in StepOutputs \cup StepInputs : Item(p[1], p[2]) = src]

Split(src) == SplitTable[src]

\* "'.' in inp_src"
HasDot(src) == src \in DOMAIN SplitTable

InputSource(step, name) ==
    (CHOOSE p \in Range(step_inputs(step)) : p[1] = name)[2]

\* Steps a step reads an output of.
Upstream(step) ==
    {Split(p[2])[1] : p \in {q \in Range(step_inputs(step)) : HasDot(q[2])}}

\* Job.subjob(step): the step and its transitive dependencies.  A job over
\* the fixed workflow is given by its set of step names.
RECURSIVE subjob(_)
subjob(step) == {step} \cup UNION {subjob(u) : u \in Upstream(step)}

\* The jobs that can be submitted: the workflow up to A, and the whole one.
Jobs == {subjob(s) : s \in StepNames}

\* The text a sub-job is hashed from: the step and, for each input, the
\* text of its source.
RECURSIVE SubjobText(_)
SubjobText(step) ==
    LET ins == step_inputs(step)
        Txt(i) == IF HasDot(ins[i][2])
                     THEN SubjobText(Split(ins[i][2])[1]) \o "."
                              \o Split(ins[i][2])[2]
                     ELSE job_inputs[ins[i][2]]
        RECURSIVE Join(_)
        Join(i) == IF i > Len(ins) THEN "" ELSE Txt(i) \o ";" \o Join(i + 1)
    IN  step \o "(" \o Join(1) \o ")"

\* Job.id_hashes(): the dictionary from item '<step>.<output>' to the hash
\* taken over the sub-job of the step and the output name.
id_hashes ==
    [item \in OutputItems |->
        SubjobText(Split(item)[1]) \o "." \o Split(item)[2]]

ResultIds == {from_id_hash(id_hashes[item]) : item \in OutputItems}

\* --------------------------------------------------------------- variables

VARIABLES
    access,        \* policy: site -> collections it may access
    plan,          \* Plan.step_sites: step name -> site
    assets,        \* AssetStore._assets of every site: id -> asset
    api,           \* outcome of the latest direct AssetStore call
    pc,            \* position of every JobRun thread
    this_site,     \* JobRun._this_site
    job,           \* JobRun._job, as its set of step names
    steps_to_do,   \* the local variable steps_to_do of JobRun.run
    scanned,       \* steps the current 'for step in steps_to_do' has passed
    cur,           \* the step whose outputs are being stored
    pending,       \* (name, value) of the outputs of cur not yet stored
    error,         \* the exception that ended the thread, if any
    executed,      \* history: times compute_asset.run was called, per step
    asked,         \* history: (site, id) pairs the run requested
    prior,         \* history: the runs that were done when the run started
    stored_by,     \* history: identifiers the run inserted into its store
    now,           \* the clock
    reg_objects,   \* CanonicalStore.objects() of the registry
    reg_archive,   \* ReplicableArchive: the events, in order of seq
    last_change,   \* history: instant of the latest change of the registry
    replica,       \* Replica of every site: objects, last_seq, lease_expiry
    callbacks,     \* RegistryClient._callbacks of every site, each callback
                   \* given by the set it builds from what it is called with
    identifier,    \* outcome of the latest call of Identifier(seq)
    cancel_requested,  \* history: runs whose cancellation was asked for
    calls,         \* the call of AssetStore each thread is in, with its
                   \* local variables and its outcome
    poc_assets,    \* AssetStore._assets of poc/asset_store.py: name -> data
    poc_metadata,  \* AssetStore._metadata there: name -> metadata
    written,       \* history: the assets whose store call, in either
                   \* AssetStore, got past its check and wrote
    legality       \* the latest call of JobRun._is_legal on its own: its
                   \* site, job and permissions, and what it returned

\* The registry and its replicas.
reg_vars == <<now, reg_objects, reg_archive, last_change, replica, callbacks>>

\* The threads that call an asset store statement by statement.
thread_vars == <<calls, poc_assets, poc_metadata, written>>

\* What only the actions about identifiers, cancellation, these threads and
\* the legality check on its own change.
ext_vars == <<identifier, cancel_requested, thread_vars, legality>>

\* What a job run reads and never writes.
policy_vars == <<access, plan, reg_vars, ext_vars>>
run_vars == <<pc, this_site, job, steps_to_do, scanned, cur, pending, error>>
hist_vars == <<executed, asked, prior, stored_by>>
vars == <<policy_vars, assets, api, run_vars, hist_vars>>

\* ------------------------------------------------------------------ policy

\* The rules in force put the data asset in c_data and c_all, and the
\* compute asset in c_comp and c_all; results of either stay in these
\* collections.  Which collections a site may access differs per behaviour.
Collections == {"c_data", "c_comp", "c_all"}

member ==
    [a \in PrimaryAssets |->
        IF a = DataAssetId THEN {"c_data", "c_all"}
                           ELSE {"c_comp", "c_all"}]

\* The grants that differ in what they give access to: a grant with c_all
\* gives access to every item.
Grants == {{}, {"c_data"}, {"c_comp"}, {"c_data", "c_comp"}, {"c_all"}}

Items ==
    PrimaryAssets \cup WorkflowInputs \cup StepNames \cup InputItems
        \cup OutputItems

\* The permission set of an item: the set of collections it belongs to.  A
\* primary asset has its base memberships, a step input those of its
\* source, a step those of its compute asset, and a step output belongs to
\* the collections that every input and the compute asset belong to.
RECURSIVE Permissions(_)
Permissions(item) ==
    IF item \in PrimaryAssets THEN member[item]
    ELSE IF item \in WorkflowInputs THEN member[job_inputs[item]]
    ELSE IF item \in StepNames THEN member[compute_asset_id(item)]
    ELSE IF item \in InputItems
        THEN Permissions(InputSource(Split(item)[1], Split(item)[2]))
    ELSE {c \in Permissions(Split(item)[1]) :
             \A i \in InputNames(Split(item)[1]) :
                 c \in Permissions(Item(Split(item)[1], i))}

\* PermissionCalculator.calculate_permissions: the dictionary from the
\* items of a job to their permission sets.  The permissions of an item
\* depend on the sub-job that produces it only, so one dictionary serves
\* every job over the workflow.
calculate_permissions == [item \in Items |-> Permissions(item)]

\* PolicyEvaluator.may_access: some collection of the permission set is
\* accessible to the site.
may_access(perm, who) == perm \cap access[who] # {}

\* ------------------------------------------------------------- asset store

\* An asset with its Metadata(job, item); kind is "data" or "compute".
Asset(id, data, mjob, item, kind) ==
    [id |-> id, data |-> data, job |-> mjob, item |-> item, kind |-> kind]

NoAsset == Asset("", "", {}, "", "")

\* A primary asset: no producing job, its own identifier as item.
PrimaryAsset(id, payload) ==
    IF id = ComputeAssetId
        THEN Asset(id, "callable", {}, id, "compute")
        ELSE Asset(id, payload, {}, id, "data")

EmptyStore == [i \in {} |-> NoAsset]

\* AssetStore.store without the test 'asset.id in self._assets': the asset
\* replaces the one stored under its identifier.
AssetStore_store_overwrite(_assets, asset) ==
    [raised |-> "none",
     assets |-> [i \in DOMAIN _assets \cup {asset.id} |->
                    IF i = asset.id THEN asset ELSE _assets[i]]]

\* AssetStore.store with the assignment before the test: an asset whose
\* identifier is stored replaces the stored one and KeyError is raised.
AssetStore_store_assign_first(_assets, asset) ==
    [raised |-> IF asset.id \in DOMAIN _assets THEN "KeyError" ELSE "none",
     assets |-> [i \in DOMAIN _assets \cup {asset.id} |->
                    IF i = asset.id THEN asset ELSE _assets[i]]]

\* AssetStore.store on the dictionary _assets: the exception raised (or
\* "none") and the dictionary afterwards.
AssetStore_store(_assets, asset) ==
    IF asset.id \in DOMAIN _assets
        THEN [raised |-> "KeyError", assets |-> _assets]
        ELSE [raised |-> "none", assets |-> (asset.id :> asset) @@ _assets]

\* AssetStore.retrieve without the may_access test.
AssetStore_retrieve_ungated(_assets, asset_id, requester) ==
    IF asset_id \notin DOMAIN _assets
        THEN [raised |-> "KeyError", asset |-> NoAsset]
        ELSE [raised |-> "none", asset |-> _assets[asset_id]]

\* AssetStore.retrieve that answers a requester without access as it
\* answers for an asset it does not have.
AssetStore_retrieve_denied_as_missing(_assets, asset_id, requester) ==
    IF asset_id \notin DOMAIN _assets
        THEN [raised |-> "KeyError", asset |-> NoAsset]
        ELSE LET asset == _assets[asset_id]
                 perm == calculate_permissions[asset.item]
             IN  IF ~may_access(perm, requester)
                     THEN [raised |-> "KeyError", asset |-> NoAsset]
                     ELSE [raised |-> "none", asset |-> asset]

\* AssetStore.retrieve on the dictionary _assets: the exception raised (or
\* "none") and the asset returned.  The lookup perms[asset.metadata.item]
\* stands in the same try block as the lookup of the asset, so a KeyError
\* of either is answered alike.
AssetStore_retrieve(_assets, asset_id, requester) ==
    IF asset_id \notin DOMAIN _assets
        THEN [raised |-> "KeyError", asset |-> NoAsset]
    ELSE IF _assets[asset_id].item \notin DOMAIN calculate_permissions
        THEN [raised |-> "KeyError", asset |-> NoAsset]
        ELSE LET asset == _assets[asset_id]
                 perm == calculate_permissions[asset.item]
             IN  IF ~may_access(perm, requester)
                     THEN [raised |-> "RuntimeError", asset |-> NoAsset]
                     ELSE [raised |-> "none", asset |-> asset]

\* RegistryClient._get_site('id', site_id) on the objects of a replica: the
\* site descriptions with that identifier.  The replica is not updated.
_get_site(objects, site_id) ==
    {o \in objects : o.kind = "site" /\ o.id = site_id}

\* RegistryClient.get_site_by_id that finds no site.
get_site_by_id_missing(objects, site_id) ==
    [raised |-> "KeyError", store |-> FALSE]

\* RegistryClient.get_site_by_id: KeyError when the replica has no site
\* with the identifier; else whether the site found has a store.
get_site_by_id(objects, site_id) ==
    IF _get_site(objects, site_id) = {}
        THEN [raised |-> "KeyError", store |-> FALSE]
        ELSE [raised |-> "none",
              store |-> \E o \in _get_site(objects, site_id) : o.store]

\* The request of a site with 'Site or store not found' raised as a
\* KeyError, as an asset that is not found is.
retrieve_asset_unknown_as_missing(requester, site_name, asset_id) ==
    LET site == get_site_by_id(replica[requester].objects, site_name)
    IN  IF site.raised # "none" \/ ~site.store
            THEN [raised |-> "KeyError", asset |-> NoAsset]
            ELSE AssetStore_retrieve(assets[site_name], asset_id, requester)

\* DDMClient.retrieve_asset / SiteRestClient.retrieve_asset: the request of
\* a site to the store of another (or its own) site, which it looks up in
\* the replica of its registry client; 'Site or store not found' is a
\* RuntimeError.
retrieve_asset(requester, site_name, asset_id) ==
    LET site == get_site_by_id(replica[requester].objects, site_name)
    IN  IF site.raised # "none" \/ ~site.store
            THEN [raised |-> "RuntimeError", asset |-> NoAsset]
            ELSE AssetStore_retrieve(assets[site_name], asset_id, requester)

\* ----------------------------------------------------------------- job run

\* JobRun._source: the (site, asset id) an input source is fetched from.
source(inp_source) ==
    IF HasDot(inp_source)
        THEN <<plan[Split(inp_source)[1]],
               from_id_hash(id_hashes[inp_source])>>
        ELSE <<location(job_inputs[inp_source]), job_inputs[inp_source]>>

\* JobRun._get_step_inputs from input number i on: status "ok" with the
\* input data, "None" at the first input not found, or the exception of the
\* first failing request; asked are the requests made.
RECURSIVE get_step_inputs_from(_, _, _)
get_step_inputs_from(site, step, i) ==
    IF i > Len(step_inputs(step))
        THEN [status |-> "ok", data |-> "", asked |-> {}]
        ELSE LET src == source(step_inputs(step)[i][2])
                 res == retrieve_asset(site, src[1], src[2])
                 rest == get_step_inputs_from(site, step, i + 1)
             IN  IF res.raised = "KeyError"
                     THEN [status |-> "None", data |-> "", asked |-> {src}]
                 ELSE IF res.raised # "none"
                     THEN [status |-> res.raised, data |-> "",
                           asked |-> {src}]
                 ELSE [status |-> rest.status,
                       data |-> res.asset.data \o ";" \o rest.data,
                       asked |-> {src} \cup rest.asked]

\* JobRun._get_step_inputs with 'continue' in place of 'return None': an
\* input that is not found is left out of the step's inputs.
get_step_inputs_skip_missing(site, step) ==
    LET res == get_step_inputs_from(site, step, 1)
    IN  IF res.status = "None" THEN [res EXCEPT !.status = "ok"] ELSE res

\* JobRun._get_step_inputs without 'except KeyError': the exception of a
\* request for an input that is not found leaves the method.
get_step_inputs_uncaught(site, step) ==
    LET res == get_step_inputs_from(site, step, 1)
    IN  IF res.status = "None" THEN [res EXCEPT !.status = "KeyError"]
                               ELSE res

\* JobRun._get_step_inputs with 'except (KeyError, RuntimeError)': a request
\* that is denied is taken for an input that is not there yet.
get_step_inputs_denied_as_missing(site, step) ==
    LET res == get_step_inputs_from(site, step, 1)
    IN  IF res.status = "RuntimeError" THEN [res EXCEPT !.status = "None"]
                                       ELSE res

get_step_inputs(site, step) == get_step_inputs_from(site, step, 1)

\* JobRun._retrieve_compute_asset: the exception raised, or "none".
retrieve_compute_asset(site, asset_id) ==
    LET res == retrieve_asset(site, location(asset_id), asset_id)
    IN  IF res.raised # "none" THEN res.raised
        ELSE IF res.asset.kind # "compute" THEN "TypeError"
        ELSE "none"

\* ComputeAsset.run: the (name, value) pairs of outputs.items().
compute_run(step, data) ==
    [i \in DOMAIN step_outputs(step) |->
        <<step_outputs(step)[i],
          Item(step, step_outputs(step)[i]) \o "(" \o data \o ")">>]

\* The DataAsset built with 'Identifier.from_id_hash(result_item)': the
\* identifier made of the name of the item in place of its hash.
result_asset_by_name(step, output_name, output_value) ==
    Asset(from_id_hash(Item(step, output_name)), output_value,
          subjob(step), Item(step, output_name), "data")

\* The DataAsset JobRun.run builds for one output of a step.
result_asset(step, output_name, output_value) ==
    Asset(from_id_hash(id_hashes[Item(step, output_name)]), output_value,
          subjob(step), Item(step, output_name), "data")

\* The site that serves an input source: the site the plan gives the
\* producing step, or the location of the workflow input's asset.
ServingSite(inp_src) ==
    IF HasDot(inp_src) THEN plan[Split(inp_src)[1]]
                       ELSE location(job_inputs[inp_src])

\* JobRun._is_legal without the check of the step's outputs.
is_legal_no_outputs(site, j) ==
    LET perms == calculate_permissions
    IN  \A step \in j :
            plan[step] = site =>
                /\ \A p \in Range(step_inputs(step)) :
                       /\ may_access(perms[Item(step, p[1])], site)
                       /\ may_access(perms[p[2]], ServingSite(p[2]))
                /\ may_access(perms[step], site)

\* JobRun._is_legal without the check of the site an input comes from.
is_legal_no_source(site, j) ==
    LET perms == calculate_permissions
    IN  \A step \in j :
            plan[step] = site =>
                /\ \A p \in Range(step_inputs(step)) :
                       may_access(perms[Item(step, p[1])], site)
                /\ may_access(perms[step], site)
                /\ \A o \in Range(step_outputs(step)) :
                       may_access(perms[Item(step, o)], site)

\* JobRun._is_legal with the test 'self._sites[step.name] ==
\* self._this_site' left out: every step of the job is checked.
_is_legal_every_step(perms, site, j) ==
    \A step \in j :
        /\ \A p \in Range(step_inputs(step)) :
               /\ may_access(perms[Item(step, p[1])], site)
               /\ LET src_site ==
                          IF HasDot(p[2])
                              THEN plan[Split(p[2])[1]]
                              ELSE location(job_inputs[p[2]])
                  IN  may_access(perms[p[2]], src_site)
        /\ may_access(perms[step], site)
        /\ \A o \in Range(step_outputs(step)) :
               may_access(perms[Item(step, o)], site)

\* The body of JobRun._is_legal after 'perms = ...calculate_permissions(
\* self._job)': the verdict for job j at site given the dictionary perms.
_is_legal(perms, site, j) ==
    \A step \in j :
        plan[step] = site =>
            /\ \A p \in Range(step_inputs(step)) :
                   /\ may_access(perms[Item(step, p[1])], site)
                   /\ LET src_site ==
                              IF HasDot(p[2])
                                  THEN plan[Split(p[2])[1]]
                                  ELSE location(job_inputs[p[2]])
                      IN  may_access(perms[p[2]], src_site)
            /\ may_access(perms[step], site)
            /\ \A o \in Range(step_outputs(step)) :
                   may_access(perms[Item(step, o)], site)

\* JobRun._is_legal for a run of job j at site.
is_legal(site, j) == _is_legal(calculate_permissions, site, j)

\* ---------------------------------------------------------------- registry

\* Party identifiers 'party:<namespace>:<name>'.
PartyId(name) == "party:" \o Namespace \o ":" \o name

Party1 == PartyId("p1")

Party2 == PartyId("p2")

Parties == {Party1, Party2}

PublicKeys == {"k1", "k2"}

\* PartyDescription.__init__.
PartyDescription(party_id, public_key) ==
    [kind |-> "party", id |-> party_id, public_key |-> public_key,
     owner_id |-> "", admin_id |-> "", endpoint |-> "", runner |-> FALSE,
     store |-> FALSE, namespace |-> ""]

\* The party descriptions handed to register_party.
PartyDescriptions ==
    {PartyDescription(Party1, "k1"), PartyDescription(Party1, "k2"),
     PartyDescription(Party2, "k1")}

\* SiteDescription.__init__ without the test 'runner and not store'.
SiteDescription_unchecked(site_id, owner_id, admin_id, endpoint, runner, store, namespace) ==
    [raised |-> "none",
     obj |-> [kind |-> "site", id |-> site_id, public_key |-> "",
              owner_id |-> owner_id, admin_id |-> admin_id,
              endpoint |-> endpoint, runner |-> runner, store |-> store,
              namespace |-> namespace]]

\* SiteDescription.__init__: the exception raised (or "none") and the
\* object constructed.
SiteDescription(site_id, owner_id, admin_id, endpoint, runner, store, namespace) ==
    LET obj == [kind |-> "site", id |-> site_id, public_key |-> "",
                owner_id |-> owner_id, admin_id |-> admin_id,
                endpoint |-> endpoint, runner |-> runner, store |-> store,
                namespace |-> namespace]
    IN  IF runner /\ ~store
            THEN [raised |-> "RuntimeError", obj |-> obj]
            ELSE [raised |-> "none", obj |-> obj]

\* The REST endpoint of a site.
Endpoint(site_id) == "http://" \o site_id

\* The arguments SiteDescription is called with: site, owner, admin,
\* runner, store.
SiteArgs ==
    {<<Site1, Party1, Party1>>, <<Site1, Party1, Party2>>,
     <<Site2, Party1, Party1>>}
        \X {<<TRUE, TRUE>>, <<FALSE, TRUE>>, <<TRUE, FALSE>>}

\* SiteDescription for one of these.
MakeSite(a) ==
    SiteDescription(a[1][1], a[1][2], a[1][3], Endpoint(a[1][1]), a[2][1],
                    a[2][2], Namespace)

\* Registry._get_object / Registry._in_store for the attribute that names
\* the object: an object of the kind with that identifier is in the store.
Registry_in_store(objects, kind, id) ==
    \E o \in objects : o.kind = kind /\ o.id = id

\* CanonicalStore.insert: the object is added and the event is archived.
CanonicalStore_insert(objects, archive, obj) ==
    [raised |-> "none",
     objects |-> objects \cup {obj},
     archive |-> Append(archive, [op |-> "insert", object |-> obj])]

\* CanonicalStore.delete: the object is removed and the event is archived.
CanonicalStore_delete(objects, archive, obj) ==
    [raised |-> "none",
     objects |-> objects \ {obj},
     archive |-> Append(archive, [op |-> "delete", object |-> obj])]

Rejected(objects, archive, exc) ==
    [raised |-> exc, objects |-> objects, archive |-> archive]

\* Registry.register_party without the test for a party of that name.
Registry_register_party_unchecked(objects, archive, description) ==
    CanonicalStore_insert(objects, archive, description)

\* Registry.register_party.
Registry_register_party(objects, archive, description) ==
    IF Registry_in_store(objects, "party", description.id)
        THEN Rejected(objects, archive, "RuntimeError")
        ELSE CanonicalStore_insert(objects, archive, description)

\* Registry.register_site without the tests for the owner and the admin.
Registry_register_site_unchecked(objects, archive, description) ==
    IF Registry_in_store(objects, "site", description.id)
        THEN Rejected(objects, archive, "RuntimeError")
        ELSE CanonicalStore_insert(objects, archive, description)

\* Registry.register_site with 'self._store.insert(description)' before the
\* look-ups of the owner and the admin.
Registry_register_site_insert_first(objects, archive, description) ==
    IF Registry_in_store(objects, "site", description.id)
        THEN Rejected(objects, archive, "RuntimeError")
    ELSE IF \/ ~Registry_in_store(objects, "party", description.owner_id)
            \/ ~Registry_in_store(objects, "party", description.admin_id)
        THEN [raised |-> "RuntimeError",
              objects |-> objects \cup {description},
              archive |-> Append(archive, [op |-> "insert",
                                           object |-> description])]
    ELSE CanonicalStore_insert(objects, archive, description)

\* Registry.register_site.
Registry_register_site(objects, archive, description) ==
    IF Registry_in_store(objects, "site", description.id)
        THEN Rejected(objects, archive, "RuntimeError")
    ELSE IF ~Registry_in_store(objects, "party", description.owner_id)
        THEN Rejected(objects, archive, "RuntimeError")
    ELSE IF ~Registry_in_store(objects, "party", description.admin_id)
        THEN Rejected(objects, archive, "RuntimeError")
    ELSE CanonicalStore_insert(objects, archive, description)

\* DELETE /parties/<id>: 404 (KeyError at the client) for a party that is
\* not registered; a party that a registered site names as owner or admin
\* stays.
Registry_deregister_party(objects, archive, party_id) ==
    IF ~Registry_in_store(objects, "party", party_id)
        THEN Rejected(objects, archive, "KeyError")
    ELSE IF \E o \in objects :
                o.kind = "site" /\ party_id \in {o.owner_id, o.admin_id}
        THEN Rejected(objects, archive, "RuntimeError")
    ELSE CanonicalStore_delete(
             objects, archive,
             CHOOSE o \in objects : o.kind = "party" /\ o.id = party_id)

\* DELETE /sites/<id>: 404 (KeyError at the client) for a site that is not
\* registered.
Registry_deregister_site(objects, archive, site_id) ==
    IF ~Registry_in_store(objects, "site", site_id)
        THEN Rejected(objects, archive, "KeyError")
        ELSE CanonicalStore_delete(
                 objects, archive,
                 CHOOSE o \in objects : o.kind = "site" /\ o.id = site_id)

\* The lease of the replication server: ReplicationServer(archive, 1.0).
Lease == 1

\* The events applied with the deletions left out.
RECURSIVE ApplyEvents_inserts_only(_, _, _)
ApplyEvents_inserts_only(objects, events, i) ==
    IF i > Len(events) THEN objects
    ELSE ApplyEvents_inserts_only(
             IF events[i].op = "insert"
                 THEN objects \cup {events[i].object}
                 ELSE objects,
             events, i + 1)

\* The objects after the events from number i on are applied in order.
RECURSIVE ApplyEvents(_, _, _)
ApplyEvents(objects, events, i) ==
    IF i > Len(events) THEN objects
    ELSE ApplyEvents(
             IF events[i].op = "insert"
                 THEN objects \cup {events[i].object}
                 ELSE objects \ {events[i].object},
             events, i + 1)

\* Replica.update() that asks the server whatever the lease says.
Replica_update_always(rep, archive, t) ==
    LET objects == ApplyEvents(rep.objects, archive, rep.last_seq + 1)
    IN  [replica |-> [objects |-> objects,
                      last_seq |-> Len(archive),
                      lease_expiry |-> t + Lease],
         fetched |-> TRUE,
         created |-> objects \ rep.objects,
         deleted |-> rep.objects \ objects]

\* Replica.update() at instant t against the archive: the replica
\* afterwards, whether the server was asked, and the objects created and
\* deleted.
Replica_update(rep, archive, t) ==
    IF t < rep.lease_expiry
        THEN [replica |-> rep, fetched |-> FALSE, created |-> {},
              deleted |-> {}]
        ELSE LET objects == ApplyEvents(rep.objects, archive,
                                        rep.last_seq + 1)
             IN  [replica |-> [objects |-> objects,
                               last_seq |-> Len(archive),
                               lease_expiry |-> t + Lease],
                  fetched |-> TRUE,
                  created |-> objects \ rep.objects,
                  deleted |-> rep.objects \ objects]

\* A replica before its first update.
NewReplica == [objects |-> {}, last_seq |-> 0, lease_expiry |-> 0]

\* RegistryClient._on_registry_update: every callback is called with the
\* objects created and deleted; a callback adds the former to its set and
\* removes the latter.
on_registry_update(cbs, created, deleted) ==
    [i \in DOMAIN cbs |-> (cbs[i] \cup created) \ deleted]

\* The registry the sites of the job runs are registered in: a party, and
\* both sites with runner and store.
SetUpObjects ==
    {PartyDescription(Party1, "k1"),
     MakeSite(<<<<Site1, Party1, Party1>>, <<TRUE, TRUE>>>>).obj,
     MakeSite(<<<<Site2, Party1, Party1>>, <<TRUE, TRUE>>>>).obj}

SetUpArchive ==
    <<[op |-> "insert", object |-> PartyDescription(Party1, "k1")],
      [op |-> "insert",
       object |-> MakeSite(<<<<Site1, Party1, Party1>>,
                             <<TRUE, TRUE>>>>).obj],
      [op |-> "insert",
       object |-> MakeSite(<<<<Site2, Party1, Party1>>,
                             <<TRUE, TRUE>>>>).obj]>>

\* The registry is set up and every replica has been updated.
InitRegistered ==
    /\ now = 0
    /\ reg_objects = SetUpObjects
    /\ reg_archive = SetUpArchive
    /\ last_change = 0
    /\ replica = [s \in Sites |->
                     [objects |-> SetUpObjects,
                      last_seq |-> Len(SetUpArchive),
                      lease_expiry |-> Lease]]
    /\ callbacks = [s \in Sites |-> <<>>]

\* ----------------------------------------------- making an Identifier

\* A string is the sequence of its characters.  The characters in use: one
\* the class [a-zA-Z0-9_.-] holds, one it does not hold, the separator and
\* the wildcard.
PartChars == {"n"}

OtherChars == {"$"}

\* The longest tail appended to a first part when strings are drawn.
MaxTail == 4

\* Identifier._kinds.
_kinds ==
    {<<"p", "a", "r", "t", "y">>,
     <<"p", "a", "r", "t", "y", "_", "c", "o", "l", "l", "e", "c", "t", "i",
       "o", "n">>,
     <<"s", "i", "t", "e">>,
     <<"a", "s", "s", "e", "t">>,
     <<"a", "s", "s", "e", "t", "_", "c", "o", "l", "l", "e", "c", "t", "i",
       "o", "n">>,
     <<"r", "e", "s", "u", "l", "t">>}

\* Identifier._lengths.
_lengths ==
    [k \in _kinds |->
        IF k = <<"a", "s", "s", "e", "t">> THEN 5
        ELSE IF k = <<"r", "e", "s", "u", "l", "t">> THEN 2
        ELSE 3]

\* str.split(':'): the parts between the separators; a string without a
\* separator, the empty string too, is its own single part.
RECURSIVE split(_)
split(data) ==
    IF \A i \in 1..Len(data) : data[i] # ":"
        THEN <<data>>
        ELSE LET i == CHOOSE j \in 1..Len(data) :
                          /\ data[j] = ":"
                          /\ \A k \in 1..(j - 1) : data[k] # ":"
             IN  <<SubSeq(data, 1, i - 1)>>
                     \o split(SubSeq(data, i + 1, Len(data)))

\* Identifier._part_regex.fullmatch(part): a match object only when the
\* whole part is made of characters of the class.
_part_regex_fullmatch(part) ==
    {[start |-> 0, end |-> k] :
        k \in {j \in {Len(part)} : \A i \in 1..j : part[i] \in PartChars}}

\* Identifier._part_regex.match(part), for the pattern '[a-zA-Z0-9_.-]*':
\* the match objects returned, none standing for None.  match looks for the
\* pattern at the start of the part and the pattern matches the empty
\* string, so there is always a match: the longest prefix of the part made
\* of characters of the class.
_part_regex_match(part) ==
    {[start |-> 0, end |-> k] :
        k \in {j \in 0..Len(part) :
                  /\ \A i \in 1..j : part[i] \in PartChars
                  /\ j < Len(part) => part[j + 1] \notin PartChars}}

\* Identifier.__new__(cls, seq): the exception raised (or "none") and the
\* identifier made.
Identifier_new(data) ==
    LET parts == split(data)
        failed == [data |-> data, raised |-> "ValueError", value |-> <<>>]
    IN  IF data = <<"*">>
            THEN [data |-> data, raised |-> "none", value |-> data]
        ELSE IF parts[1] \notin _kinds THEN failed
        ELSE IF Len(parts) # _lengths[parts[1]] THEN failed
        ELSE IF \E i \in 1..Len(parts) : _part_regex_match(parts[i]) = {}
            THEN failed
        ELSE [data |-> data, raised |-> "none", value |-> data]

\* ----------------------------------------------------------------- actions

NoCall ==
    [op |-> "none", site |-> "", id |-> "", requester |-> "",
     raised |-> "none", asset |-> NoAsset]

\* The threads that call an asset store at the same time.
Threads == {"t1", "t2"}

\* Metadata(job, item) as a pair; no metadata.
Metadata(mjob, item) == <<mjob, item>>

NoMetadata == <<>>

\* A thread that is in no call and has made none.
NoThreadCall ==
    [op |-> "none", pc |-> "idle", arg |-> NoAsset, id |-> "",
     requester |-> "", asset |-> NoAsset, data |-> "",
     metadata |-> NoMetadata, raised |-> "none"]

EmptyDict == [i \in {} |-> ""]

\* No Identifier has been made.
\* No call of JobRun._is_legal on its own has been made.
NoLegality ==
    [site |-> "", job |-> {}, perms |-> <<>>, changed |-> "",
     verdict |-> FALSE]

NoIdentifier == [data |-> <<>>, raised |-> "none", value |-> <<>>]

\* No job has been submitted and the stores are empty.
InitRuns ==
    /\ access \in [Sites -> Grants]
    /\ plan \in [StepNames -> Sites]
    /\ assets = [s \in Sites |-> EmptyStore]
    /\ api = NoCall
    /\ pc = [r \in Runs |-> "idle"]
    /\ this_site = [r \in Runs |-> Site1]
    /\ job = [r \in Runs |-> {}]
    /\ steps_to_do = [r \in Runs |-> {}]
    /\ scanned = [r \in Runs |-> {}]
    /\ cur = [r \in Runs |-> "A"]
    /\ pending = [r \in Runs |-> <<>>]
    /\ error = [r \in Runs |-> "none"]
    /\ executed = [r \in Runs |-> [s \in StepNames |-> 0]]
    /\ asked = [r \in Runs |-> {}]
    /\ prior = [r \in Runs |-> {}]
    /\ stored_by = [r \in Runs |-> {}]
    /\ identifier = NoIdentifier
    /\ cancel_requested = {}
    /\ calls = [t \in Threads |-> NoThreadCall]
    /\ poc_assets = EmptyDict
    /\ poc_metadata = EmptyDict
    /\ written = [components |-> {}, poc |-> {}]
    /\ legality = NoLegality

Init == InitRuns /\ InitRegistered

\* The set-up of a site: a primary asset the site is the location of is put
\* into its store with AssetStore.store.
store_primary(site, id, payload) ==
    /\ location(id) = site
    /\ id \notin DOMAIN assets[site]
    /\ assets' = [assets EXCEPT ![site] =
                     AssetStore_store(@, PrimaryAsset(id, payload)).assets]
    /\ api' = NoCall
    /\ UNCHANGED <<policy_vars, run_vars, hist_vars>>

\* JobRun.run without 'if not self._is_legal(): raise': the run goes on to
\* the loop whatever the policies say.
execute_job_unchecked(r, site, j) ==
    /\ pc[r] = "idle"
    /\ \A q \in Runs : q < r => pc[q] # "idle"
    /\ this_site' = [this_site EXCEPT ![r] = site]
    /\ job' = [job EXCEPT ![r] = j]
    /\ LET todo == {step \in j : plan[step] = site}
       IN  /\ steps_to_do' = [steps_to_do EXCEPT ![r] = todo]
           /\ pc' = [pc EXCEPT ![r] = IF todo = {} THEN "done" ELSE "scan"]
    /\ prior' = [prior EXCEPT ![r] = {q \in Runs : pc[q] = "done"}]
    /\ api' = NoCall
    /\ UNCHANGED <<policy_vars, assets, scanned, cur, pending, error,
                   executed, asked, stored_by>>

\* JobRun.run with 'steps_to_do = set(self._workflow.steps.values())': the
\* steps to do are chosen without the test of their site.
execute_job_every_step(r, site, j) ==
    /\ pc[r] = "idle"
    /\ \A q \in Runs : q < r => pc[q] # "idle"
    /\ this_site' = [this_site EXCEPT ![r] = site]
    /\ job' = [job EXCEPT ![r] = j]
    /\ IF ~is_legal(site, j)
           THEN /\ pc' = [pc EXCEPT ![r] = "failed"]
                /\ error' = [error EXCEPT ![r] = "IllegalJob"]
                /\ UNCHANGED steps_to_do
           ELSE /\ steps_to_do' = [steps_to_do EXCEPT ![r] = j]
                /\ pc' = [pc EXCEPT ![r] = "scan"]
                /\ UNCHANGED error
    /\ prior' = [prior EXCEPT ![r] = {q \in Runs : pc[q] = "done"}]
    /\ api' = NoCall
    /\ UNCHANGED <<policy_vars, assets, scanned, cur, pending, executed,
                   asked, stored_by>>

\* StepRunner.execute_job and JobRun.run up to the loop: a JobRun thread is
\* created for the submission and started; it checks legality and chooses
\* the steps to do.  Run slots are taken in order.
execute_job(r, site, j) ==
    /\ pc[r] = "idle"
    /\ \A q \in Runs : q < r => pc[q] # "idle"
    /\ this_site' = [this_site EXCEPT ![r] = site]
    /\ job' = [job EXCEPT ![r] = j]
    /\ IF ~is_legal(site, j)
           THEN /\ pc' = [pc EXCEPT ![r] = "failed"]
                /\ error' = [error EXCEPT ![r] = "IllegalJob"]
                /\ UNCHANGED steps_to_do
           ELSE LET todo == {step \in j : plan[step] = site}
                IN  /\ steps_to_do' = [steps_to_do EXCEPT ![r] = todo]
                    /\ pc' = [pc EXCEPT ![r] =
                                 IF todo = {} THEN "done" ELSE "scan"]
                    /\ UNCHANGED error
    /\ prior' = [prior EXCEPT ![r] = {q \in Runs : pc[q] = "done"}]
    /\ api' = NoCall
    /\ UNCHANGED <<policy_vars, assets, scanned, cur, pending, executed,
                   asked, stored_by>>

\* The end of the body of the for loop without 'steps_to_do.remove(step)'.
finish_step_keep(r, step) ==
    /\ UNCHANGED steps_to_do
    /\ scanned' = [scanned EXCEPT ![r] = {}]
    /\ pc' = [pc EXCEPT ![r] = "scan"]

\* The end of the body of the for loop with a sleep before the next scan.
finish_step_then_sleep(r, step) ==
    /\ steps_to_do' = [steps_to_do EXCEPT ![r] = @ \ {step}]
    /\ scanned' = [scanned EXCEPT ![r] = {}]
    /\ pc' = [pc EXCEPT ![r] =
                 IF steps_to_do'[r] = {} THEN "done" ELSE "sleep"]

\* The end of the body of the for loop with 'steps_to_do.clear()' in place
\* of 'steps_to_do.remove(step)'.
finish_step_clear(r, step) ==
    /\ steps_to_do' = [steps_to_do EXCEPT ![r] = {}]
    /\ scanned' = [scanned EXCEPT ![r] = {}]
    /\ pc' = [pc EXCEPT ![r] = "done"]

\* The end of the body of the for loop, after the last output is stored:
\* 'steps_to_do.remove(step); break', and the test of the while loop.
finish_step(r, step) ==
    /\ steps_to_do' = [steps_to_do EXCEPT ![r] = @ \ {step}]
    /\ scanned' = [scanned EXCEPT ![r] = {}]
    /\ pc' = [pc EXCEPT ![r] =
                 IF steps_to_do'[r] = {} THEN "done" ELSE "scan"]

\* One pass of the body of the for loop with the compute asset requested
\* inside 'if inputs is not None': a step whose inputs are not yet available
\* is passed over without a request for its compute asset.
attempt_compute_when_ready(r, step) ==
    /\ pc[r] = "scan"
    /\ step \in steps_to_do[r] \ scanned[r]
    /\ LET inputs == get_step_inputs(this_site[r], step)
           comp == compute_asset_id(step)
           craised == IF inputs.status = "None" THEN "none"
                      ELSE retrieve_compute_asset(this_site[r], comp)
           csrc == <<location(comp), comp>>
       IN  IF inputs.status \notin {"ok", "None"}
               THEN \* an exception of a request for an input ends the thread
                    /\ pc' = [pc EXCEPT ![r] = "failed"]
                    /\ error' = [error EXCEPT ![r] = inputs.status]
                    /\ asked' = [asked EXCEPT ![r] = @ \cup inputs.asked]
                    /\ UNCHANGED <<steps_to_do, scanned, cur, pending,
                                   executed>>
           ELSE IF craised # "none"
               THEN \* so does one of the request for the compute asset
                    /\ pc' = [pc EXCEPT ![r] = "failed"]
                    /\ error' = [error EXCEPT ![r] = craised]
                    /\ asked' = [asked EXCEPT ![r] =
                                    @ \cup inputs.asked \cup {csrc}]
                    /\ UNCHANGED <<steps_to_do, scanned, cur, pending,
                                   executed>>
           ELSE IF inputs.status = "None"
               THEN \* next step of the for loop, or its else branch
                    /\ scanned' = [scanned EXCEPT ![r] = @ \cup {step}]
                    /\ pc' = [pc EXCEPT ![r] =
                                 IF scanned'[r] = steps_to_do[r]
                                     THEN "sleep" ELSE "scan"]
                    /\ asked' = [asked EXCEPT ![r] = @ \cup inputs.asked]
                    /\ UNCHANGED <<steps_to_do, error, cur, pending,
                                   executed>>
           ELSE \* compute_asset.run(inputs)
                    /\ executed' = [executed EXCEPT ![r][step] = @ + 1]
                    /\ cur' = [cur EXCEPT ![r] = step]
                    /\ pending' = [pending EXCEPT ![r] =
                                      compute_run(step, inputs.data)]
                    /\ asked' = [asked EXCEPT ![r] =
                                    @ \cup inputs.asked \cup {csrc}]
                    /\ IF pending'[r] = <<>>
                           THEN finish_step(r, step)
                           ELSE /\ pc' = [pc EXCEPT ![r] = "store"]
                                /\ UNCHANGED <<steps_to_do, scanned>>
                    /\ UNCHANGED error
    /\ api' = NoCall
    /\ UNCHANGED <<policy_vars, assets, this_site, job, prior, stored_by>>

\* One pass of the body of 'for step in steps_to_do' up to the call of the
\* compute asset: the inputs and the compute asset are requested; with all
\* inputs present the compute asset is run.
attempt(r, step) ==
    /\ pc[r] = "scan"
    /\ step \in steps_to_do[r] \ scanned[r]
    /\ LET inputs == get_step_inputs(this_site[r], step)
           comp == compute_asset_id(step)
           craised == retrieve_compute_asset(this_site[r], comp)
           csrc == <<location(comp), comp>>
       IN  IF inputs.status \notin {"ok", "None"}
               THEN \* an exception of a request for an input ends the thread
                    /\ pc' = [pc EXCEPT ![r] = "failed"]
                    /\ error' = [error EXCEPT ![r] = inputs.status]
                    /\ asked' = [asked EXCEPT ![r] = @ \cup inputs.asked]
                    /\ UNCHANGED <<steps_to_do, scanned, cur, pending,
                                   executed>>
           ELSE IF craised # "none"
               THEN \* so does one of the request for the compute asset
                    /\ pc' = [pc EXCEPT ![r] = "failed"]
                    /\ error' = [error EXCEPT ![r] = craised]
                    /\ asked' = [asked EXCEPT ![r] =
                                    @ \cup inputs.asked \cup {csrc}]
                    /\ UNCHANGED <<steps_to_do, scanned, cur, pending,
                                   executed>>
           ELSE IF inputs.status = "None"
               THEN \* next step of the for loop, or its else branch
                    /\ scanned' = [scanned EXCEPT ![r] = @ \cup {step}]
                    /\ pc' = [pc EXCEPT ![r] =
                                 IF scanned'[r] = steps_to_do[r]
                                     THEN "sleep" ELSE "scan"]
                    /\ asked' = [asked EXCEPT ![r] =
                                    @ \cup inputs.asked \cup {csrc}]
                    /\ UNCHANGED <<steps_to_do, error, cur, pending,
                                   executed>>
           ELSE \* compute_asset.run(inputs)
                    /\ executed' = [executed EXCEPT ![r][step] = @ + 1]
                    /\ cur' = [cur EXCEPT ![r] = step]
                    /\ pending' = [pending EXCEPT ![r] =
                                      compute_run(step, inputs.data)]
                    /\ asked' = [asked EXCEPT ![r] =
                                    @ \cup inputs.asked \cup {csrc}]
                    /\ IF pending'[r] = <<>>
                           THEN finish_step(r, step)
                           ELSE /\ pc' = [pc EXCEPT ![r] = "store"]
                                /\ UNCHANGED <<steps_to_do, scanned>>
                    /\ UNCHANGED error
    /\ api' = NoCall
    /\ UNCHANGED <<policy_vars, assets, this_site, job, prior, stored_by>>

\* The pass over the outputs with a store that treats an identifier that is
\* already stored as success.
store_output_ignore_duplicate(r) ==
    /\ pc[r] = "store"
    /\ LET asset == result_asset(cur[r], Head(pending[r])[1],
                                 Head(pending[r])[2])
           res == AssetStore_store(assets[this_site[r]], asset)
       IN  /\ assets' = [assets EXCEPT ![this_site[r]] = res.assets]
           /\ pending' = [pending EXCEPT ![r] = Tail(@)]
           /\ stored_by' = [stored_by EXCEPT ![r] = @ \cup {asset.id}]
           /\ IF pending'[r] = <<>>
                  THEN finish_step(r, cur[r])
                  ELSE UNCHANGED <<pc, steps_to_do, scanned>>
           /\ UNCHANGED error
    /\ api' = NoCall
    /\ UNCHANGED <<policy_vars, this_site, job, cur, executed, asked,
                   prior>>

\* The pass over the outputs with 'break' after the first call of store:
\* the step is removed when one of its outputs has been stored.
store_output_first_only(r) ==
    /\ pc[r] = "store"
    /\ LET asset == result_asset(cur[r], Head(pending[r])[1],
                                 Head(pending[r])[2])
           res == AssetStore_store(assets[this_site[r]], asset)
       IN  /\ assets' = [assets EXCEPT ![this_site[r]] = res.assets]
           /\ IF res.raised # "none"
                  THEN /\ pc' = [pc EXCEPT ![r] = "failed"]
                       /\ error' = [error EXCEPT ![r] = res.raised]
                       /\ UNCHANGED <<pending, steps_to_do, scanned,
                                      stored_by>>
                  ELSE /\ pending' = [pending EXCEPT ![r] = <<>>]
                       /\ stored_by' = [stored_by EXCEPT ![r] =
                                           @ \cup {asset.id}]
                       /\ finish_step(r, cur[r])
                       /\ UNCHANGED error
    /\ api' = NoCall
    /\ UNCHANGED <<policy_vars, this_site, job, cur, executed, asked,
                   prior>>

\* One pass of 'for output_name, output_value in outputs.items()': the next
\* output of the step is stored in the target store.
store_output(r) ==
    /\ pc[r] = "store"
    /\ LET asset == result_asset(cur[r], Head(pending[r])[1],
                                 Head(pending[r])[2])
           res == AssetStore_store(assets[this_site[r]], asset)
       IN  /\ assets' = [assets EXCEPT ![this_site[r]] = res.assets]
           /\ IF res.raised # "none"
                  THEN /\ pc' = [pc EXCEPT ![r] = "failed"]
                       /\ error' = [error EXCEPT ![r] = res.raised]
                       /\ UNCHANGED <<pending, steps_to_do, scanned,
                                      stored_by>>
                  ELSE /\ pending' = [pending EXCEPT ![r] = Tail(@)]
                       /\ stored_by' = [stored_by EXCEPT ![r] =
                                           @ \cup {asset.id}]
                       /\ IF pending'[r] = <<>>
                              THEN finish_step(r, cur[r])
                              ELSE UNCHANGED <<pc, steps_to_do, scanned>>
                       /\ UNCHANGED error
    /\ api' = NoCall
    /\ UNCHANGED <<policy_vars, this_site, job, cur, executed, asked,
                   prior>>

\* A sleep that does not end.
wake_never(r) ==
    /\ pc[r] = "sleep"
    /\ UNCHANGED vars

\* The end of sleep(0.5): the for loop starts again.
wake(r) ==
    /\ pc[r] = "sleep"
    /\ pc' = [pc EXCEPT ![r] = "scan"]
    /\ scanned' = [scanned EXCEPT ![r] = {}]
    /\ api' = NoCall
    /\ UNCHANGED <<policy_vars, assets, this_site, job, steps_to_do, cur,
                   pending, error, hist_vars>>

\* The payload the set-up of the site stores the data asset with.
SetupPayloads == {"d1"}

Next ==
    \/ \E site \in Sites, id \in PrimaryAssets, payload \in SetupPayloads :
           store_primary(site, id, payload)
    \/ \E r \in Runs, site \in Sites, j \in Jobs : execute_job(r, site, j)
    \/ \E r \in Runs, step \in StepNames : attempt(r, step)
    \/ \E r \in Runs : store_output(r)
    \/ \E r \in Runs : wake(r)

Spec == Init /\ [][Next]_vars

\* ------------------------------------------------- one run at every site

\* execute_job at a site that has started no run yet.
execute_job_once(r, site, j) ==
    /\ \A q \in Runs : pc[q] # "idle" => this_site[q] # site
    /\ execute_job(r, site, j)

NextOnce ==
    \/ \E site \in Sites, id \in PrimaryAssets, payload \in SetupPayloads :
           store_primary(site, id, payload)
    \/ \E r \in Runs, site \in Sites, j \in Jobs :
           execute_job_once(r, site, j)
    \/ \E r \in Runs, step \in StepNames : attempt(r, step)
    \/ \E r \in Runs : store_output(r)
    \/ \E r \in Runs : wake(r)

\* A started thread is scheduled again and again: its next statement is
\* eventually executed, and a sleep ends.
Fairness ==
    \A r \in Runs :
        /\ WF_vars(\E step \in StepNames : attempt(r, step))
        /\ WF_vars(store_output(r))
        /\ WF_vars(wake(r))

SpecFair == Init /\ [][NextOnce]_vars /\ Fairness

\* ------------------------------------------- the asset store on its own

\* The assets a caller may hand to AssetStore.store: the primary assets,
\* and results with the metadata JobRun.run gives them.
CallAssets ==
    {PrimaryAsset(id, d) : id \in PrimaryAssets, d \in Payloads}
        \cup {result_asset(p[1], p[2], Item(p[1], p[2]) \o "()") :
                  p \in StepOutputs}

\* The site whose AssetStore is called directly.
StoreSite == Site1

\* A direct call of AssetStore.store.
call_store(asset) ==
    /\ LET res == AssetStore_store(assets[StoreSite], asset)
       IN  /\ assets' = [assets EXCEPT ![StoreSite] = res.assets]
           /\ api' = [op |-> "store", site |-> StoreSite, id |-> asset.id,
                      requester |-> "", raised |-> res.raised,
                      asset |-> asset]
    /\ UNCHANGED <<policy_vars, run_vars, hist_vars>>

\* A direct call of AssetStore.retrieve with 'self._assets.pop(asset_id)' as
\* the look-up: the asset found is taken out of the store.
call_retrieve_pop(id, requester) ==
    /\ LET res == AssetStore_retrieve(assets[StoreSite], id, requester)
       IN  /\ api' = [op |-> "retrieve", site |-> StoreSite, id |-> id,
                      requester |-> requester, raised |-> res.raised,
                      asset |-> res.asset]
           /\ assets' = [assets EXCEPT ![StoreSite] =
                            [i \in DOMAIN @ \ {id} |-> @[i]]]
    /\ UNCHANGED <<policy_vars, run_vars, hist_vars>>

\* A direct call of AssetStore.retrieve: a request served for a requester.
call_retrieve(id, requester) ==
    /\ LET res == AssetStore_retrieve(assets[StoreSite], id, requester)
       IN  api' = [op |-> "retrieve", site |-> StoreSite, id |-> id,
                   requester |-> requester, raised |-> res.raised,
                   asset |-> res.asset]
    /\ UNCHANGED <<policy_vars, assets, run_vars, hist_vars>>

NextStore ==
    \/ \E asset \in CallAssets : call_store(asset)
    \/ \E id \in PrimaryAssets \cup ResultIds, requester \in Sites :
           call_retrieve(id, requester)

\* The plan plays no part in the store: one plan is enough.
InitStore == Init /\ plan = [s \in StepNames |-> StoreSite]

SpecStore == InitStore /\ [][NextStore]_vars

\* ------------------------------------------ job runs under changing rules

\* The rules that say what a site may access are replaced: policy updates
\* reach the evaluators while jobs run.
update_rules(site, grant) ==
    /\ access[site] # grant
    /\ access' = [access EXCEPT ![site] = grant]
    /\ api' = NoCall
    /\ UNCHANGED <<ext_vars, plan, reg_vars, assets, run_vars, hist_vars>>

NextRules ==
    \/ \E site \in Sites, id \in PrimaryAssets, payload \in SetupPayloads :
           store_primary(site, id, payload)
    \/ \E r \in Runs, site \in Sites, j \in Jobs :
           execute_job_once(r, site, j)
    \/ \E r \in Runs, step \in StepNames : attempt(r, step)
    \/ \E r \in Runs : store_output(r)
    \/ \E r \in Runs : wake(r)
    \/ \E site \in Sites, grant \in {{}, {"c_all"}} :
           update_rules(site, grant)

\* Every site starts with access to everything; B runs where A does or at
\* the other site.
InitRules ==
    /\ Init
    /\ access = [s \in Sites |-> {"c_all"}]
    /\ plan["A"] = Site1

SpecRules == InitRules /\ [][NextRules]_vars

\* ------------------------------------------- the registry and its replicas

\* The outcome of a call of the registry or of a registry client.
RegCall(op, id, raised) ==
    [op |-> op, site |-> "", id |-> id, requester |-> "",
     raised |-> raised, asset |-> NoAsset]

\* The archive has room for the event of a change.
Room == Len(reg_archive) < MaxEvents

\* A change of the registry, or its rejection, as res describes it.
registry_becomes(res) ==
    /\ reg_objects' = res.objects
    /\ reg_archive' = res.archive
    /\ last_change' = IF res.archive # reg_archive THEN now ELSE last_change

\* RegistryClient.register_party / Registry.register_party.
register_party(description) ==
    /\ LET res == Registry_register_party(reg_objects, reg_archive,
                                          description)
       IN  /\ res.raised = "none" => Room
           /\ registry_becomes(res)
           /\ api' = RegCall("register_party", description.id, res.raised)
    /\ UNCHANGED <<ext_vars, access, plan, now, replica, callbacks, assets,
                   run_vars, hist_vars>>

\* A SiteDescription is made and handed to RegistryClient.register_site /
\* Registry.register_site.
register_site(a) ==
    /\ LET made == MakeSite(a)
           res == Registry_register_site(reg_objects, reg_archive, made.obj)
       IN  IF made.raised # "none"
               THEN /\ api' = RegCall("SiteDescription", a[1][1],
                                      made.raised)
                    /\ UNCHANGED <<reg_objects, reg_archive, last_change>>
               ELSE /\ res.raised = "none" => Room
                    /\ registry_becomes(res)
                    /\ api' = RegCall("register_site", a[1][1], res.raised)
    /\ UNCHANGED <<ext_vars, access, plan, now, replica, callbacks, assets,
                   run_vars, hist_vars>>

\* RegistryClient.deregister_party.
deregister_party(party_id) ==
    /\ LET res == Registry_deregister_party(reg_objects, reg_archive,
                                            party_id)
       IN  /\ res.raised = "none" => Room
           /\ registry_becomes(res)
           /\ api' = RegCall("deregister_party", party_id, res.raised)
    /\ UNCHANGED <<ext_vars, access, plan, now, replica, callbacks, assets,
                   run_vars, hist_vars>>

\* RegistryClient.deregister_site.
deregister_site(site_id) ==
    /\ LET res == Registry_deregister_site(reg_objects, reg_archive,
                                           site_id)
       IN  /\ res.raised = "none" => Room
           /\ registry_becomes(res)
           /\ api' = RegCall("deregister_site", site_id, res.raised)
    /\ UNCHANGED <<ext_vars, access, plan, now, replica, callbacks, assets,
                   run_vars, hist_vars>>

\* RegistryClient.update at a site: Replica.update, which calls
\* _on_registry_update when it has asked the server.
update(site) ==
    /\ LET res == Replica_update(replica[site], reg_archive, now)
       IN  /\ replica' = [replica EXCEPT ![site] = res.replica]
           /\ callbacks' =
                  [callbacks EXCEPT ![site] =
                      IF res.fetched
                          THEN on_registry_update(@, res.created,
                                                  res.deleted)
                          ELSE @]
           /\ api' = RegCall("update",
                             IF res.fetched THEN "/updates" ELSE "", "none")
    /\ UNCHANGED <<ext_vars, access, plan, now, reg_objects, reg_archive,
                   last_change, assets, run_vars, hist_vars>>

\* RegistryClient.register_callback without the first call of the
\* callback.
register_callback_silent(site) ==
    /\ callbacks[site] = <<>>
    /\ callbacks' = [callbacks EXCEPT ![site] = Append(@, {})]
    /\ api' = RegCall("register_callback", site, "none")
    /\ UNCHANGED <<ext_vars, access, plan, now, reg_objects, reg_archive,
                   last_change, replica, assets, run_vars, hist_vars>>

\* RegistryClient.register_callback at a site that has none yet: the
\* callback is appended and called with the objects of the replica and the
\* empty set.
register_callback(site) ==
    /\ callbacks[site] = <<>>
    /\ callbacks' = [callbacks EXCEPT ![site] =
                        Append(@, ({} \cup replica[site].objects) \ {})]
    /\ api' = RegCall("register_callback", site, "none")
    /\ UNCHANGED <<ext_vars, access, plan, now, reg_objects, reg_archive,
                   last_change, replica, assets, run_vars, hist_vars>>

\* Time passes.
tick ==
    /\ now < MaxTime
    /\ now' = now + 1
    /\ api' = NoCall
    /\ UNCHANGED <<ext_vars, access, plan, reg_objects, reg_archive,
                   last_change, replica, callbacks, assets, run_vars,
                   hist_vars>>

\* The calls of the registry.
NextRegistry ==
    \/ \E description \in PartyDescriptions : register_party(description)
    \/ \E a \in SiteArgs : register_site(a)
    \/ \E party_id \in Parties : deregister_party(party_id)
    \/ \E site_id \in Sites : deregister_site(site_id)

\* Nothing is registered; every RegistryClient has been created, which
\* updates its replica.
InitRegistry ==
    /\ InitRuns
    /\ access = [s \in Sites |-> {"c_all"}]
    /\ plan = [s \in StepNames |-> Site1]
    /\ now = 0
    /\ reg_objects = {}
    /\ reg_archive = <<>>
    /\ last_change = 0
    /\ replica = [s \in Sites |->
                     Replica_update(NewReplica, <<>>, 0).replica]
    /\ callbacks = [s \in Sites |-> <<>>]

SpecRegistry == InitRegistry /\ [][NextRegistry]_vars

\* The party and the sites that come and go while replicas are followed.
ReplicaParties == {PartyDescription(Party1, "k1")}

ReplicaSiteArgs ==
    {<<Site1, Party1, Party1>>, <<Site2, Party1, Party1>>}
        \X {<<TRUE, TRUE>>}

\* The calls of the registry and of the registry clients, as time passes.
NextReplica ==
    \/ \E description \in ReplicaParties : register_party(description)
    \/ \E a \in ReplicaSiteArgs : register_site(a)
    \/ \E party_id \in {Party1} : deregister_party(party_id)
    \/ \E site_id \in Sites : deregister_site(site_id)
    \/ \E site \in Sites : update(site)
    \/ \E site \in Sites : register_callback(site)
    \/ tick

SpecReplica == InitRegistry /\ [][NextReplica]_vars

\* ------------------------------------------------ identifiers are made

\* The strings of the characters in use that are no longer than n.
RECURSIVE Strings(_)
Strings(n) ==
    IF n = 0
        THEN {<<>>}
        ELSE Strings(n - 1)
                 \cup {Append(t, c) :
                          t \in {u \in Strings(n - 1) : Len(u) = n - 1},
                          c \in PartChars \cup OtherChars \cup {":"}}

\* The strings an Identifier is made of: a kind, a word that is no kind or
\* nothing, followed by a tail; and the wildcard.
IdentifierInputs ==
    {head \o tail : head \in _kinds \cup {<<>>, <<"n">>},
                    tail \in Strings(MaxTail)}
        \cup {<<"*">>}

\* A call of Identifier(seq).
new_identifier(data) ==
    /\ identifier' = Identifier_new(data)
    /\ api' = NoCall
    /\ UNCHANGED <<cancel_requested, thread_vars, legality, access, plan,
                   reg_vars, assets, run_vars, hist_vars>>

NextIdentifier == \E data \in IdentifierInputs : new_identifier(data)

InitIdentifier == InitRules /\ plan = [s \in StepNames |-> Site1]

SpecIdentifier == InitIdentifier /\ [][NextIdentifier]_vars

\* ---------------------------------------- job runs and their cancellation

\* The number of times the run has called a compute asset.
StepsExecuted(r) ==
    LET RECURSIVE Sum(_)
        Sum(S) == IF S = {} THEN 0
                  ELSE LET x == CHOOSE x \in S : TRUE
                       IN  executed[r][x] + Sum(S \ {x})
    IN  Sum(StepNames)

\* Someone asks for the cancellation of a running job, once; the request is
\* kept with the number of steps the run has executed by then.
\* StepRunner.execute_job returns nothing and JobRun.run reads no flag:
\* no statement of the run depends on the request.
request_cancel(r) ==
    /\ pc[r] \in {"scan", "store", "sleep"}
    /\ \A c \in cancel_requested : c[1] # r
    /\ cancel_requested' = cancel_requested \cup {<<r, StepsExecuted(r)>>}
    /\ api' = NoCall
    /\ UNCHANGED <<identifier, thread_vars, legality, access, plan,
                   reg_vars, assets, run_vars, hist_vars>>

NextCancel ==
    \/ \E site \in Sites, id \in PrimaryAssets, payload \in SetupPayloads :
           store_primary(site, id, payload)
    \/ \E r \in Runs, site \in Sites, j \in Jobs :
           execute_job_once(r, site, j)
    \/ \E r \in Runs, step \in StepNames : attempt(r, step)
    \/ \E r \in Runs : store_output(r)
    \/ \E r \in Runs : wake(r)
    \/ \E r \in Runs : request_cancel(r)

SpecCancel == InitRules /\ [][NextCancel]_vars

\* ------------------------------------- a site is registered as jobs run

\* The site that is registered late, and its description.
NewSite == Site2

NewSiteArgs == <<<<NewSite, Party1, Party1>>, <<TRUE, TRUE>>>>

\* The registry before the new site is registered.
StaleObjects ==
    {PartyDescription(Party1, "k1"),
     MakeSite(<<<<Site1, Party1, Party1>>, <<TRUE, TRUE>>>>).obj}

StaleArchive ==
    <<[op |-> "insert", object |-> PartyDescription(Party1, "k1")],
      [op |-> "insert",
       object |-> MakeSite(<<<<Site1, Party1, Party1>>,
                             <<TRUE, TRUE>>>>).obj]>>

\* The sites whose registry client is asked to update as jobs run.
StaleClients == {Site1}

\* The new site is not registered; every registry client has been created,
\* which updates its replica.  Every site may access everything, and the
\* plan has B at s1 and A at s1 or at the new site.
InitStale ==
    /\ InitRuns
    /\ access = [s \in Sites |-> {"c_all"}]
    /\ plan["B"] = Site1
    /\ now = 0
    /\ reg_objects = StaleObjects
    /\ reg_archive = StaleArchive
    /\ last_change = 0
    /\ replica = [s \in Sites |->
                     Replica_update(NewReplica, StaleArchive, 0).replica]
    /\ callbacks = [s \in Sites |-> <<>>]

NextStale ==
    \/ \E site \in Sites, id \in PrimaryAssets, payload \in SetupPayloads :
           store_primary(site, id, payload)
    \/ \E r \in Runs, site \in Sites, j \in Jobs :
           execute_job_once(r, site, j)
    \/ \E r \in Runs, step \in StepNames : attempt(r, step)
    \/ \E r \in Runs : store_output(r)
    \/ \E r \in Runs : wake(r)
    \/ register_site(NewSiteArgs)
    \/ \E site \in StaleClients : update(site)
    \/ tick

\* The threads of the runs are scheduled fairly; nothing is assumed of the
\* registry and of the clock.
SpecStale == InitStale /\ [][NextStale]_vars /\ Fairness

\* ------------------------------------- job runs that share an asset store

\* The statement 'self._assets[asset.id] = asset' of AssetStore.store.
dict_setitem(_assets, asset) ==
    [i \in DOMAIN _assets \cup {asset.id} |->
        IF i = asset.id THEN asset ELSE _assets[i]]

\* The asset of the store call run r is at.
NextOutput(r) ==
    result_asset(cur[r], Head(pending[r])[1], Head(pending[r])[2])

\* The test of AssetStore.store that finds no identifier.
store_check_none(r) ==
    /\ pc[r] = "store"
    /\ pc' = [pc EXCEPT ![r] = "insert"]
    /\ api' = NoCall
    /\ UNCHANGED <<policy_vars, assets, this_site, job, steps_to_do, scanned,
                   cur, pending, error, hist_vars>>

\* The first statement of AssetStore.store in the thread of run r, for the
\* next output of the step: 'if asset.id in self._assets: raise KeyError'.
\* Nothing keeps another thread from running before the next statement.
store_check(r) ==
    /\ pc[r] = "store"
    /\ IF NextOutput(r).id \in DOMAIN assets[this_site[r]]
           THEN /\ pc' = [pc EXCEPT ![r] = "failed"]
                /\ error' = [error EXCEPT ![r] = "KeyError"]
           ELSE /\ pc' = [pc EXCEPT ![r] = "insert"]
                /\ UNCHANGED error
    /\ api' = NoCall
    /\ UNCHANGED <<policy_vars, assets, this_site, job, steps_to_do, scanned,
                   cur, pending, hist_vars>>

\* The second statement of AssetStore.store in the thread of run r,
\* 'self._assets[asset.id] = asset', and the return to the loop over the
\* outputs.
store_insert(r) ==
    /\ pc[r] = "insert"
    /\ assets' = [assets EXCEPT ![this_site[r]] =
                     dict_setitem(@, NextOutput(r))]
    /\ pending' = [pending EXCEPT ![r] = Tail(@)]
    /\ stored_by' = [stored_by EXCEPT ![r] = @ \cup {NextOutput(r).id}]
    /\ IF pending'[r] = <<>>
           THEN finish_step(r, cur[r])
           ELSE /\ pc' = [pc EXCEPT ![r] = "store"]
                /\ UNCHANGED <<steps_to_do, scanned>>
    /\ api' = NoCall
    /\ UNCHANGED <<policy_vars, this_site, job, cur, error, executed, asked,
                   prior>>

\* The site whose runner starts the threads.
SharedSite == Site1

\* Job runs at one site, the statements of their store calls interleaved.
NextShared ==
    \/ \E site \in Sites, id \in PrimaryAssets, payload \in SetupPayloads :
           store_primary(site, id, payload)
    \/ \E r \in Runs, j \in Jobs : execute_job(r, SharedSite, j)
    \/ \E r \in Runs, step \in StepNames : attempt(r, step)
    \/ \E r \in Runs : store_check(r)
    \/ \E r \in Runs : store_insert(r)
    \/ \E r \in Runs : wake(r)

\* Every site may access everything, and every step is planned at the site.
InitShared ==
    /\ Init
    /\ access = [s \in Sites |-> {"c_all"}]
    /\ plan = [s \in StepNames |-> SharedSite]

SpecShared == InitShared /\ [][NextShared]_vars

\* ----------------------------------- a compute asset that cannot be had

\* The set-up of a site stores a DataAsset under the identifier that the
\* steps name as their compute asset.
store_primary_as_data(site, id, payload) ==
    /\ location(id) = site
    /\ id \notin DOMAIN assets[site]
    /\ assets' = [assets EXCEPT ![site] =
                     AssetStore_store(@, Asset(id, payload, {}, id,
                                               "data")).assets]
    /\ api' = NoCall
    /\ UNCHANGED <<policy_vars, run_vars, hist_vars>>

\* Job runs while the rules change and while the compute asset is absent,
\* stored, or stored as data.
NextCompute ==
    \/ NextRules
    \/ \E payload \in SetupPayloads :
           store_primary_as_data(location(ComputeAssetId), ComputeAssetId,
                                 payload)

SpecCompute == InitRules /\ [][NextCompute]_vars

\* ------------------------------------- registrations that are turned down

\* The descriptions handed in: a party under one identifier with either
\* key, and a site with or without a runner whose owner or admin is the
\* party or a party that is never registered.
RejectedParties ==
    {PartyDescription(Party1, "k1"), PartyDescription(Party1, "k2")}

RejectedSiteArgs ==
    {<<Site1, Party1, Party1>>, <<Site1, Party1, Party2>>,
     <<Site1, Party2, Party1>>}
        \X {<<TRUE, TRUE>>, <<FALSE, TRUE>>}

\* Registrations, accepted or not, and deregistrations of the site, while
\* the replica of a site is updated and time passes.
NextRejected ==
    \/ \E description \in RejectedParties : register_party(description)
    \/ \E a \in RejectedSiteArgs : register_site(a)
    \/ deregister_site(Site1)
    \/ update(Site2)
    \/ tick

SpecRejected == InitRegistry /\ [][NextRejected]_vars

\* ------------------------------- threads that call one asset store at once

\* The assets the threads hand to store: one identifier, under which the
\* callers put different data with different metadata.
ThreadAssets ==
    {Asset(DataAssetId, "d1", {}, DataAssetId, "data"),
     Asset(DataAssetId, "d2", {}, ComputeAssetId, "data")}

\* A thread enters a call of the store of components/asset_store.py
\* ("store", "retrieve") or of poc/asset_store.py ("poc_store",
\* "poc_retrieve"), at the first statement of the method.
FirstStatement ==
    [op \in {"store", "retrieve", "poc_store", "poc_retrieve"} |->
        CASE op = "store" -> "check"
          [] op = "retrieve" -> "lookup"
          [] op = "poc_store" -> "poc_check"
          [] op = "poc_retrieve" -> "poc_data"]

\* What no statement of a store method changes.
ThreadFrame ==
    UNCHANGED <<identifier, cancel_requested, legality, access, plan,
                reg_vars, api, run_vars, hist_vars>>

\* The thread leaves its call with an exception, or with what it returns;
\* asset, data and metadata are the method's locals at that point.
Return(t, raised, asset, data, metadata) ==
    [calls EXCEPT ![t] = [@ EXCEPT !.pc = "idle", !.raised = raised,
                                   !.asset = asset, !.data = data,
                                   !.metadata = metadata]]

\* 'd[k] = v' on a dictionary.
setitem(d, k, v) ==
    [i \in DOMAIN d \cup {k} |-> IF i = k THEN v ELSE d[i]]

begin_call(t, op, a, requester) ==
    /\ calls[t].pc = "idle"
    /\ calls' = [calls EXCEPT ![t] =
                    [NoThreadCall EXCEPT
                        !.op = op, !.pc = FirstStatement[op],
                        !.arg = IF op \in {"store", "poc_store"}
                                    THEN a ELSE NoAsset,
                        !.id = a.id, !.requester = requester]]
    /\ UNCHANGED <<assets, poc_assets, poc_metadata, written>>
    /\ ThreadFrame

\* AssetStore.store without its existence check.
thread_store_check_none(t) ==
    /\ calls[t].pc = "check"
    /\ calls' = [calls EXCEPT ![t].pc = "insert"]
    /\ UNCHANGED <<assets, poc_assets, poc_metadata, written>>
    /\ ThreadFrame

\* AssetStore.store, 'if asset.id in self._assets: raise KeyError(...)'.
thread_store_check(t) ==
    /\ calls[t].pc = "check"
    /\ calls' = IF calls[t].id \in DOMAIN assets[StoreSite]
                    THEN Return(t, "KeyError", NoAsset, "", NoMetadata)
                    ELSE [calls EXCEPT ![t].pc = "insert"]
    /\ UNCHANGED <<assets, poc_assets, poc_metadata, written>>
    /\ ThreadFrame

\* AssetStore.store, 'self._assets[asset.id] = asset'.
thread_store_insert(t) ==
    /\ calls[t].pc = "insert"
    /\ assets' = [assets EXCEPT ![StoreSite] =
                     dict_setitem(@, calls[t].arg)]
    /\ written' = [written EXCEPT !.components = @ \cup {calls[t].arg}]
    /\ calls' = Return(t, "none", NoAsset, "", NoMetadata)
    /\ UNCHANGED <<poc_assets, poc_metadata>>
    /\ ThreadFrame

\* AssetStore.retrieve, 'asset = self._assets[asset_id]'.
thread_retrieve_lookup(t) ==
    /\ calls[t].pc = "lookup"
    /\ calls' = IF calls[t].id \notin DOMAIN assets[StoreSite]
                    THEN Return(t, "KeyError", NoAsset, "", NoMetadata)
                    ELSE [calls EXCEPT
                             ![t].pc = "gate",
                             ![t].asset = assets[StoreSite][calls[t].id]]
    /\ UNCHANGED <<assets, poc_assets, poc_metadata, written>>
    /\ ThreadFrame

\* AssetStore.retrieve, from 'perms = ...' to 'return asset'.
thread_retrieve_gate(t) ==
    /\ calls[t].pc = "gate"
    /\ LET asset == calls[t].asset
       IN  calls' =
               IF asset.item \notin DOMAIN calculate_permissions
                   THEN Return(t, "KeyError", NoAsset, "", NoMetadata)
               ELSE IF ~may_access(calculate_permissions[asset.item],
                                   calls[t].requester)
                   THEN Return(t, "RuntimeError", NoAsset, "", NoMetadata)
               ELSE Return(t, "none", asset, "", NoMetadata)
    /\ UNCHANGED <<assets, poc_assets, poc_metadata, written>>
    /\ ThreadFrame

\* poc AssetStore.store, 'if name in self._assets: raise KeyError(...)'.
poc_store_check(t) ==
    /\ calls[t].pc = "poc_check"
    /\ calls' = IF calls[t].id \in DOMAIN poc_assets
                    THEN Return(t, "KeyError", NoAsset, "", NoMetadata)
                    ELSE [calls EXCEPT ![t].pc = "poc_set_data"]
    /\ UNCHANGED <<assets, poc_assets, poc_metadata, written>>
    /\ ThreadFrame

\* poc AssetStore.store, 'self._assets[name] = data'.
poc_store_data(t) ==
    /\ calls[t].pc = "poc_set_data"
    /\ poc_assets' = setitem(poc_assets, calls[t].id, calls[t].arg.data)
    /\ written' = [written EXCEPT !.poc = @ \cup {calls[t].arg}]
    /\ calls' = [calls EXCEPT ![t].pc = "poc_set_metadata"]
    /\ UNCHANGED <<assets, poc_metadata>>
    /\ ThreadFrame

\* poc AssetStore.store, 'self._metadata[name] = metadata'.
poc_store_metadata(t) ==
    /\ calls[t].pc = "poc_set_metadata"
    /\ poc_metadata' = setitem(poc_metadata, calls[t].id,
                               Metadata(calls[t].arg.job, calls[t].arg.item))
    /\ calls' = Return(t, "none", NoAsset, "", NoMetadata)
    /\ UNCHANGED <<assets, poc_assets, written>>
    /\ ThreadFrame

\* poc AssetStore.retrieve, 'data = self._assets[asset_name]'.
poc_retrieve_data(t) ==
    /\ calls[t].pc = "poc_data"
    /\ calls' = IF calls[t].id \notin DOMAIN poc_assets
                    THEN Return(t, "KeyError", NoAsset, "", NoMetadata)
                    ELSE [calls EXCEPT
                             ![t].pc = "poc_metadata",
                             ![t].data = poc_assets[calls[t].id]]
    /\ UNCHANGED <<assets, poc_assets, poc_metadata, written>>
    /\ ThreadFrame

\* poc AssetStore.retrieve with 'metadata = self._metadata.get(asset_name)'
\* and the data returned as they are when there is no metadata.
poc_retrieve_metadata_get(t) ==
    /\ calls[t].pc = "poc_metadata"
    /\ calls' = IF calls[t].id \notin DOMAIN poc_metadata
                    THEN Return(t, "none", NoAsset, calls[t].data,
                                NoMetadata)
                    ELSE [calls EXCEPT
                             ![t].pc = "poc_gate",
                             ![t].metadata = poc_metadata[calls[t].id]]
    /\ UNCHANGED <<assets, poc_assets, poc_metadata, written>>
    /\ ThreadFrame

\* poc AssetStore.retrieve, 'metadata = self._metadata[asset_name]'; its
\* KeyError is caught by 'except KeyError' and raised again.
poc_retrieve_metadata(t) ==
    /\ calls[t].pc = "poc_metadata"
    /\ calls' = IF calls[t].id \notin DOMAIN poc_metadata
                    THEN Return(t, "KeyError", NoAsset, calls[t].data,
                                NoMetadata)
                    ELSE [calls EXCEPT
                             ![t].pc = "poc_gate",
                             ![t].metadata = poc_metadata[calls[t].id]]
    /\ UNCHANGED <<assets, poc_assets, poc_metadata, written>>
    /\ ThreadFrame

\* poc AssetStore.retrieve, from 'perms = ...' to 'return data, metadata'.
poc_retrieve_gate(t) ==
    /\ calls[t].pc = "poc_gate"
    /\ LET item == calls[t].metadata[2]
       IN  calls' =
               IF item \notin DOMAIN calculate_permissions
                   THEN Return(t, "KeyError", NoAsset, "", NoMetadata)
               ELSE IF ~may_access(calculate_permissions[item],
                                   calls[t].requester)
                   THEN Return(t, "RuntimeError", NoAsset, "", NoMetadata)
               ELSE Return(t, "none", NoAsset, calls[t].data,
                           calls[t].metadata)
    /\ UNCHANGED <<assets, poc_assets, poc_metadata, written>>
    /\ ThreadFrame

NextThreads ==
    \/ \E t \in Threads, op \in DOMAIN FirstStatement, a \in ThreadAssets,
          requester \in Sites : begin_call(t, op, a, requester)
    \/ \E t \in Threads : thread_store_check(t)
    \/ \E t \in Threads : thread_store_insert(t)
    \/ \E t \in Threads : thread_retrieve_lookup(t)
    \/ \E t \in Threads : thread_retrieve_gate(t)
    \/ \E t \in Threads : poc_store_check(t)
    \/ \E t \in Threads : poc_store_data(t)
    \/ \E t \in Threads : poc_store_metadata(t)
    \/ \E t \in Threads : poc_retrieve_data(t)
    \/ \E t \in Threads : poc_retrieve_metadata(t)
    \/ \E t \in Threads : poc_retrieve_gate(t)

\* The stores are empty; s1 may access everything and s2 nothing.
InitThreads ==
    /\ Init
    /\ access = [s \in Sites |-> IF s = Site1 THEN {"c_all"} ELSE {}]
    /\ plan = [s \in StepNames |-> StoreSite]

SpecThreads == InitThreads /\ [][NextThreads]_vars

\* --------------------------------------------- the legality check on its own

\* The items of a job: the keys of the dictionary calculate_permissions
\* returns.
JobItems == WorkflowInputs \cup StepNames \cup InputItems \cup OutputItems

\* The permission sets the dictionaries handed to the check are made of:
\* no collection, or the collection of everything.
PermValues == {{}, {"c_all"}}

\* The dictionaries of permissions of the jobs the check is run for.
PermMaps == [JobItems -> PermValues]

\* What no legality check on its own changes.
LegalFrame ==
    UNCHANGED <<identifier, cancel_requested, thread_vars, access, plan,
                reg_vars, assets, api, run_vars, hist_vars>>

\* JobRun._is_legal is run at site for job j whose permissions are perms.
check_legality(site, j, perms) ==
    /\ legality = NoLegality
    /\ legality' = [site |-> site, job |-> j, perms |-> perms,
                    changed |-> "", verdict |-> _is_legal(perms, site, j)]
    /\ LegalFrame

\* JobRun._is_legal is run again at the same site for a job that differs
\* from the last one in the permissions of one item.
check_legality_again(item, perm) ==
    /\ legality # NoLegality
    /\ legality.perms[item] # perm
    /\ LET perms == [legality.perms EXCEPT ![item] = perm]
       IN  legality' = [legality EXCEPT
                           !.perms = perms, !.changed = item,
                           !.verdict = _is_legal(perms, legality.site,
                                                 legality.job)]
    /\ LegalFrame

NextLegal ==
    \/ \E site \in Sites, j \in Jobs, perms \in PermMaps :
           check_legality(site, j, perms)
    \/ \E item \in JobItems, perm \in PermValues :
           check_legality_again(item, perm)

\* Step A runs at s1 and step B at either site; every site has access to
\* the collection of everything, so that the permissions alone decide.
InitLegal ==
    /\ Init
    /\ access = [s \in Sites |-> {"c_all"}]
    /\ plan["A"] = Site1

SpecLegal == InitLegal /\ [][NextLegal]_vars

\* ================================================================== claims

Started(r) == pc[r] # "idle"

\* The run passed the legality check.
Accepted(r) == Started(r) /\ error[r] # "IllegalJob"

\* The steps the plan assigns to the site of the run.
LocalSteps(r) == {s \in job[r] : plan[s] = this_site[r]}

\* C1 -- Asset store gate: whenever AssetStore.retrieve returns an asset, it
\* is the asset stored under the requested identifier and the requester may
\* access the permissions calculated for the asset's metadata item; a
\* requester without that access never receives the asset.
C1_StoreGate ==
    (api.op = "retrieve" /\ api.raised = "none") =>
        /\ api.asset = assets[api.site][api.id]
        /\ may_access(calculate_permissions[api.asset.item], api.requester)

\* A result was returned to one site while the other site may not have it.
C1_Witness ==
    /\ api.op = "retrieve"
    /\ api.raised = "none"
    /\ api.asset.item \in OutputItems
    /\ \E q \in Sites :
           ~may_access(calculate_permissions[api.asset.item], q)

\* C2 -- A run of a job that fails the legality check aborts with
\* IllegalJob before executing any step: it has run no compute asset,
\* requested no input, stored nothing and has no steps to do; the step in
\* which it aborts leaves every store as it was, and the run takes no step
\* afterwards.
C2_IllegalJobAborts ==
    /\ [](\A r \in Runs :
              (Started(r) /\ ~is_legal(this_site[r], job[r])) =>
                  /\ pc[r] = "failed"
                  /\ error[r] = "IllegalJob"
                  /\ \A s \in StepNames : executed[r][s] = 0
                  /\ asked[r] = {}
                  /\ stored_by[r] = {}
                  /\ steps_to_do[r] = {}
                  /\ pending[r] = <<>>)
    /\ [][\A r \in Runs :
              (~Started(r) /\ pc'[r] = "failed") => assets' = assets]_vars

\* A run was rejected although the plan gives its site a step.
C2_Witness ==
    \E r \in Runs : error[r] = "IllegalJob" /\ LocalSteps(r) # {}

\* C3 -- The legality check accepts a job only if, for every step the plan
\* assigns to this site, the site may access every input item
\* '<step>.<input>', the compute binding '<step>' and every output item
\* '<step>.<output>'.
C3_LegalityLocalAccess ==
    \A r \in Runs :
        Accepted(r) =>
            \A step \in LocalSteps(r) :
                /\ \A i \in InputNames(step) :
                       may_access(calculate_permissions[Item(step, i)],
                                  this_site[r])
                /\ may_access(calculate_permissions[step], this_site[r])
                /\ \A o \in Range(step_outputs(step)) :
                       may_access(calculate_permissions[Item(step, o)],
                                  this_site[r])

\* A run with local steps was accepted.
C3_Witness ==
    \E r \in Runs : Accepted(r) /\ LocalSteps(r) # {}

\* C4 -- The legality check accepts a job only if, for every input of every
\* local step, the site that will serve the input (plan.step_sites of the
\* producing step, or location() of the workflow input's asset) may access
\* the source item.
C4_LegalitySourceAccess ==
    \A r \in Runs :
        Accepted(r) =>
            \A step \in LocalSteps(r) :
                \A p \in Range(step_inputs(step)) :
                    may_access(
                        calculate_permissions[p[2]],
                        IF p[2] \in OutputItems
                            THEN plan[Split(p[2])[1]]
                            ELSE LocationOf[job_inputs[p[2]]])

\* An accepted run has a local step with an input produced at another site.
C4_Witness ==
    \E r \in Runs :
        /\ Accepted(r)
        /\ \E step \in LocalSteps(r) :
               \E p \in Range(step_inputs(step)) :
                   p[2] \in OutputItems
                       /\ plan[Split(p[2])[1]] # this_site[r]

ResultId(item) == from_id_hash(id_hashes[item])

Stored(site, id) == id \in DOMAIN assets[site]

\* Run r is a second run: when it was submitted, a run of the same job at
\* the same site, which has steps there, had completed.
Rerun(r) ==
    /\ Accepted(r)
    /\ LocalSteps(r) # {}
    /\ \E q \in prior[r] : this_site[q] = this_site[r] /\ job[q] = job[r]

Alone(r) ==
    \A q \in Runs \ {r} : Started(q) => this_site[q] # this_site[r]

\* The local steps that produce an input of step.
LocalProducers(r, step) ==
    {s \in LocalSteps(r) :
        \E p \in Range(step_inputs(step)) :
            p[2] \in OutputItems /\ Split(p[2])[1] = s}

PrimaryStored == \A id \in PrimaryAssets : Stored(location(id), id)

\* The thread of run r is alive or has returned from run().
Running(r) == Accepted(r) /\ pc[r] # "failed"

\* Every site the plan names for a step of the job of r runs a job with
\* that step, and the job is legal there.
AllSitesRun(r) ==
    \A step \in job[r] :
        \E q \in Runs :
            Running(q) /\ this_site[q] = plan[step] /\ step \in job[q]

\* An input of a step run r still has to do is not in the store of the site
\* that serves it.
Blocked(r) ==
    /\ Running(r)
    /\ \E step \in steps_to_do[r] :
           \E p \in Range(step_inputs(step)) :
               ~Stored(source(p[2])[1], source(p[2])[2])

\* C8 -- Under fair scheduling, a run of a legal job, with every primary
\* asset stored at its location and every site of the plan running the job,
\* eventually has no steps to do and terminates; a run does not terminate
\* while an input of a step it has to do is missing; and a run for which
\* such an input stays missing for ever is asleep again and again.
C8_Progress ==
    /\ \A r \in Runs :
           (Running(r) /\ PrimaryStored /\ AllSitesRun(r))
               ~> (pc[r] = "done" /\ steps_to_do[r] = {})
    /\ [](\A r \in Runs : Blocked(r) => pc[r] # "done")
    /\ \A r \in Runs :
           <>[](Blocked(r) /\ PrimaryStored) => []<>(pc[r] = "sleep")

\* A run with steps to do has terminated when every site of the plan runs
\* the job.
C8_Witness ==
    \E r \in Runs :
        /\ pc[r] = "done"
        /\ LocalSteps(r) # {}
        /\ AllSitesRun(r)
        /\ \E q \in Runs : Started(q) /\ this_site[q] # this_site[r]

\* The plan {A -> s1, B -> s2}.
PlanAB == plan["A"] = Site1 /\ plan["B"] = Site2

\* Run r is the run of the workflow A -> B at s2.
RunB(r) == Accepted(r) /\ this_site[r] = Site2 /\ "B" \in job[r]

\* C9 -- With the plan {A -> s1, B -> s2}: an attempt of the run at s2 on
\* B while the output of A is not in the store of s1 (the compute asset
\* being there) executes nothing, keeps B in the steps to do and goes to
\* sleep for a retry; B is never executed twice; and once the output of A
\* is stored at s1 the run at s2, if it is running, eventually terminates
\* having executed B exactly once.
C9_DeferredInput ==
    /\ [][\A r \in Runs :
              (/\ PlanAB
               /\ RunB(r)
               /\ attempt(r, "B")
               /\ ~Stored(Site1, ResultId("A.y"))
               /\ Stored(location(ComputeAssetId), ComputeAssetId))
                  => /\ executed' = executed
                     /\ assets' = assets
                     /\ "B" \in steps_to_do'[r]
                     /\ pc'[r] = "sleep"]_vars
    /\ [](\A r \in Runs : (PlanAB /\ RunB(r)) => executed[r]["B"] <= 1)
    /\ \A r \in Runs :
           (PlanAB /\ RunB(r) /\ Running(r)
                   /\ Stored(Site1, ResultId("A.y")))
               ~> (pc[r] = "done" /\ executed[r]["B"] = 1)

\* The run at s2 is asleep after an attempt on B, the run at s1 has started
\* and the output of A is not stored yet.
C9_Witness ==
    /\ PlanAB
    /\ \E r \in Runs :
           /\ RunB(r)
           /\ pc[r] = "sleep"
           /\ executed[r]["B"] = 0
           /\ ~Stored(Site1, ResultId("A.y"))
           /\ \E q \in Runs : Accepted(q) /\ this_site[q] = Site1

\* The first response that is not an asset, among the requests for the
\* inputs of step in order, is 'not found'.
NotFoundResponse(r, step) ==
    \E i \in DOMAIN step_inputs(step) :
        /\ ~Stored(source(step_inputs(step)[i][2])[1],
                   source(step_inputs(step)[i][2])[2])
        /\ \A k \in 1..(i - 1) :
               retrieve_asset(this_site[r],
                              source(step_inputs(step)[k][2])[1],
                              source(step_inputs(step)[k][2])[2]).raised
                   = "none"

DeniedResponse(r, step) ==
    \E i \in DOMAIN step_inputs(step) :
        /\ retrieve_asset(this_site[r],
                          source(step_inputs(step)[i][2])[1],
                          source(step_inputs(step)[i][2])[2]).raised
               = "RuntimeError"
        /\ \A k \in 1..(i - 1) :
               retrieve_asset(this_site[r],
                              source(step_inputs(step)[k][2])[1],
                              source(step_inputs(step)[k][2])[2]).raised
                   = "none"

\* C11 -- An 'access denied' response to a request for an input of a step
\* ends the run, unlike 'not found': the attempt executes nothing and
\* stores nothing, the run fails with the RuntimeError of the store, and a
\* failed run takes no step afterwards: it executes no step, stores no
\* output, and its steps to do are never tried again.
C11_AccessDeniedFatal ==
    /\ [][\A r \in Runs, step \in StepNames :
              (attempt(r, step) /\ DeniedResponse(r, step))
                  => /\ pc'[r] = "failed"
                     /\ error'[r] = "RuntimeError"
                     /\ executed' = executed
                     /\ assets' = assets
                     /\ pending' = pending]_vars
    /\ [][\A r \in Runs :
              pc[r] = "failed"
                  => /\ pc'[r] = "failed"
                     /\ executed'[r] = executed[r]
                     /\ stored_by'[r] = stored_by[r]
                     /\ asked'[r] = asked[r]
                     /\ steps_to_do'[r] = steps_to_do[r]]_vars

\* A run that was accepted has failed on a denied request for an input,
\* with a step left to do that it never executed.
C11_Witness ==
    \E r \in Runs :
        /\ pc[r] = "failed"
        /\ error[r] = "RuntimeError"
        /\ \E step \in steps_to_do[r] :
               executed[r][step] = 0 /\ DeniedResponse(r, step)

\* C12 -- Replica convergence: an update() of a replica at an instant when
\* the latest register or deregister operation lies further back than the
\* lease leaves the replica with exactly the objects of the canonical
\* registry.
C12_ReplicaConvergence ==
    [][\A site \in Sites :
           (update(site) /\ now > last_change + Lease)
               => replica'[site].objects = reg_objects]_vars

\* A replica has asked the server after the registry had been quiet for
\* longer than the lease, and took over a registry in which something was
\* registered and something deregistered.
C12_Witness ==
    /\ api.op = "update"
    /\ api.id = "/updates"
    /\ now > last_change + Lease
    /\ reg_objects # {}
    /\ \E i \in DOMAIN reg_archive : reg_archive[i].op = "delete"
    /\ \E site \in Sites :
           /\ replica[site].objects = reg_objects
           /\ replica[site].last_seq = Len(reg_archive)
           /\ replica[site].lease_expiry = now + Lease

\* C13 -- No two registered parties and no two registered sites have the
\* same identifier, and register_party / register_site for an identifier
\* that is registered for the kind raises an error.
C13_UniqueIds ==
    /\ [](\A o1 \in reg_objects, o2 \in reg_objects :
              (o1.kind = o2.kind /\ o1.id = o2.id) => o1 = o2)
    /\ [][\A description \in PartyDescriptions :
              (/\ register_party(description)
               /\ Registry_in_store(reg_objects, "party", description.id))
                  => api'.raised = "RuntimeError"]_vars
    /\ [][\A a \in SiteArgs :
              (/\ register_site(a)
               /\ MakeSite(a).raised = "none"
               /\ Registry_in_store(reg_objects, "site", a[1][1]))
                  => api'.raised = "RuntimeError"]_vars

\* The registration of a party was rejected while a party and a site are
\* registered.
C13_Witness ==
    /\ api.op = "register_party"
    /\ api.raised = "RuntimeError"
    /\ Registry_in_store(reg_objects, "party", api.id)
    /\ \E o \in reg_objects : o.kind = "site"

\* C14 -- The owner and the admin of every registered site are registered
\* parties, and register_site raises an error when the owner or the admin
\* is not a registered party.
C14_SiteOwnerAdminRegistered ==
    /\ [](\A o \in reg_objects :
              o.kind = "site" =>
                  /\ Registry_in_store(reg_objects, "party", o.owner_id)
                  /\ Registry_in_store(reg_objects, "party", o.admin_id))
    /\ [][\A a \in SiteArgs :
              (/\ register_site(a)
               /\ MakeSite(a).raised = "none"
               /\ \/ ~Registry_in_store(reg_objects, "party", a[1][2])
                  \/ ~Registry_in_store(reg_objects, "party", a[1][3]))
                  => (api'.raised = "RuntimeError"
                          /\ reg_objects' = reg_objects)]_vars

\* A site that is not registered was refused although its owner is
\* registered: its admin is not.
C14_Witness ==
    /\ api.op = "register_site"
    /\ api.raised = "RuntimeError"
    /\ ~Registry_in_store(reg_objects, "site", api.id)
    /\ Registry_in_store(reg_objects, "party", Party1)
    /\ ~Registry_in_store(reg_objects, "party", Party2)

\* C15 -- The set a callback builds, from the objects it is called with on
\* register_callback and the (created, deleted) it is called with on every
\* update of the replica, is the set of objects of the replica.
C15_CallbackFollowsReplica ==
    \A site \in Sites :
        \A i \in DOMAIN callbacks[site] :
            callbacks[site][i] = replica[site].objects

\* A callback holds objects after it has seen an update, the registry
\* having deregistered a site.
C15_Witness ==
    \E site \in Sites :
        /\ callbacks[site] # <<>>
        /\ api.op = "update"
        /\ api.id = "/updates"
        /\ replica[site].last_seq = Len(reg_archive)
        /\ callbacks[site][1] # {}
        /\ \E i \in DOMAIN reg_archive :
               /\ reg_archive[i].op = "delete"
               /\ reg_archive[i].object.kind = "site"

\* C19 -- Every site description in the registry or in a replica that has
\* a runner has a store, and making a SiteDescription with a runner and
\* without a store raises an error, so that nothing is registered.
C19_RunnerNeedsStore ==
    /\ [](\A o \in reg_objects \cup UNION {replica[s].objects : s \in Sites} :
              o.kind = "site" => (o.runner => o.store))
    /\ [][\A a \in SiteArgs :
              (register_site(a) /\ a[2][1] /\ ~a[2][2])
                  => /\ api'.op = "SiteDescription"
                     /\ api'.raised = "RuntimeError"
                     /\ reg_objects' = reg_objects
                     /\ reg_archive' = reg_archive]_vars

\* A SiteDescription was refused while a site with a store and without a
\* runner is registered.
C19_Witness ==
    /\ api.op = "SiteDescription"
    /\ api.raised = "RuntimeError"
    /\ \E o \in reg_objects : o.kind = "site" /\ o.store /\ ~o.runner

\* C20 -- AssetStore.retrieve raises KeyError (not found) exactly when no
\* asset with the requested identifier is stored; for a stored asset it
\* either returns that asset or raises the RuntimeError of a denied
\* access.
C20_NotFoundIffAbsent ==
    api.op = "retrieve" =>
        /\ api.raised = "KeyError" <=> ~Stored(api.site, api.id)
        /\ Stored(api.site, api.id) =>
               \/ api.raised = "none"
                      /\ api.asset = assets[api.site][api.id]
               \/ api.raised = "RuntimeError" /\ api.asset = NoAsset

\* A stored asset was denied to a requester.
C20_Witness ==
    /\ api.op = "retrieve"
    /\ api.raised = "RuntimeError"
    /\ Stored(api.site, api.id)

\* The string is a valid identifier: its first part is a kind, it has the
\* number of parts of that kind, and every part is made of characters of
\* the class only.
ValidIdentifier(data) ==
    LET parts == split(data)
    IN  /\ parts[1] \in _kinds
        /\ Len(parts) = _lengths[parts[1]]
        /\ \A i \in 1..Len(parts) :
               \A k \in 1..Len(parts[i]) : parts[i][k] \in PartChars

\* C18 -- Identifier validation: Identifier(seq) accepts a string other
\* than '*' only if its first part is one of the six kinds, it has the
\* number of parts of that kind and every part is made of characters of
\* [A-Za-z0-9_.-] only; every other string is rejected with an error.
\* Identifier.__new__ does not keep this: it accepts parts with other
\* characters.
C18_OnlyValidAccepted ==
    identifier.data # <<"*">> /\ identifier # NoIdentifier
        => (identifier.raised = "none" <=> ValidIdentifier(identifier.data))

\* C18 -- what Identifier.__new__ does enforce: the kind and the number of
\* parts of a string other than '*', and nothing else.
C18_KindAndCountEnforced ==
    identifier.data # <<"*">> /\ identifier # NoIdentifier
        => (identifier.raised = "none"
               <=> LET parts == split(identifier.data)
                   IN  /\ parts[1] \in _kinds
                       /\ Len(parts) = _lengths[parts[1]])

\* An identifier with a character outside the class has been accepted.
C18_Witness ==
    /\ identifier.raised = "none"
    /\ identifier.data # <<"*">>
    /\ \E i \in 1..Len(identifier.data) : identifier.data[i] \in OtherChars

\* C17 -- Cancellation: once the cancellation of a run has been asked for,
\* the run sees the request before it enters a back-off sleep and between
\* steps: it enters no sleep, and it executes no step beyond the one that
\* was under way.  JobRun.run does not keep this: it has no means of
\* seeing a request.
C17_CancelledRunStops ==
    [][\A c \in cancel_requested :
           /\ pc[c[1]] # "sleep" => pc'[c[1]] # "sleep"
           /\ StepsExecuted(c[1])' <= c[2] + 1]_vars

\* C17 -- the outputs a run has stored stay in the store of its site when
\* its cancellation has been asked for.
C17_PersistedOutputsRemain ==
    \A c \in cancel_requested :
        stored_by[c[1]] \subseteq DOMAIN assets[this_site[c[1]]]

\* The cancellation of a run was asked for before it executed a step, and
\* the run has executed both steps and stored their outputs.
C17_Witness ==
    \E c \in cancel_requested :
        /\ c[2] = 0
        /\ StepsExecuted(c[1]) = 2
        /\ stored_by[c[1]] # {}
        /\ pc[c[1]] = "done"

\* The sites the plan of the job of run r refers to: the sites of its steps
\* and the locations of the primary assets.
PlanSites(r) ==
    {plan[step] : step \in job[r]} \cup {location(a) : a \in PrimaryAssets}

\* The replica of the site has the new site.
Refreshed(site) == _get_site(replica[site].objects, NewSite) # {}

C16_WitnessInFlight ==
    /\ api.op = "register_site"
    /\ api.raised = "none"
    /\ \E r \in Runs :
           /\ NewSite \notin PlanSites(r)
           /\ pc[r] = "scan"
           /\ executed[r]["A"] = 1
           /\ "B" \in steps_to_do[r]

\* The new site is in the registry.
Registered(site) == _get_site(reg_objects, site) # {}

\* Run r has ended on the error of a request.
FailedOnRequest(r) == pc[r] = "failed" /\ error[r] = "RuntimeError"

Overlap(r, q) ==
    /\ r # q
    /\ Accepted(r) /\ Accepted(q)
    /\ this_site[r] = this_site[q]
    /\ q \notin prior[r] /\ r \notin prior[q]

\* Run r has ended on the KeyError of a call of store.
StoreFailed(r) ==
    pc[r] = "failed" /\ error[r] = "KeyError" /\ pending[r] # <<>>

LocalResultIds(r) ==
    UNION {{ResultId(Item(step, o)) : o \in Range(step_outputs(step))} :
               step \in LocalSteps(r)}

\* C23 -- Local steps only: a run executes a step only if the plan assigns
\* it to the site of the run; what the run stores are outputs of such steps
\* and goes into the store of its own site, a store call of the run
\* changing no other store; and a run that has completed has executed every
\* step the plan assigns to its site.
C23_LocalStepsOnly ==
    /\ [](\A r \in Runs :
              /\ \A step \in StepNames :
                     executed[r][step] > 0
                         => step \in job[r] /\ plan[step] = this_site[r]
              /\ steps_to_do[r] \subseteq LocalSteps(r)
              /\ stored_by[r] \subseteq LocalResultIds(r)
              /\ stored_by[r] \subseteq DOMAIN assets[this_site[r]]
              /\ pc[r] = "done"
                     => \A step \in LocalSteps(r) : executed[r][step] >= 1)
    /\ [][\A r \in Runs :
              store_output(r)
                  => \A site \in Sites \ {this_site[r]} :
                         assets'[site] = assets[site]]_vars

\* A run of the whole workflow has completed at the site of one of the two
\* steps, having executed that step and not the other one.
C23_Witness ==
    \E r \in Runs :
        /\ pc[r] = "done"
        /\ job[r] = StepNames
        /\ plan["A"] # plan["B"]
        /\ \E step \in StepNames :
               /\ plan[step] = this_site[r]
               /\ executed[r][step] = 1
               /\ \A other \in StepNames \ {step} : executed[r][other] = 0

\* The identifiers of the outputs of a step.
StepResultIds(step) ==
    {ResultId(Item(step, o)) : o \in Range(step_outputs(step))}

\* The (site, identifier) pairs the inputs of a step are fetched from.
StepSources(step) == {source(p[2]) : p \in Range(step_inputs(step))}

\* C24 -- At most once: a run executes each step at most once; a step
\* leaves the steps to do only once the run has executed it and stored
\* every output of it, and the set of steps to do of a started run never
\* grows; and a step is executed only in an attempt that has retrieved
\* every input of the step.
C24_StepAtMostOnce ==
    /\ [](\A r \in Runs : \A step \in StepNames : executed[r][step] <= 1)
    /\ [][\A r \in Runs :
              /\ Started(r) => steps_to_do'[r] \subseteq steps_to_do[r]
              /\ \A step \in steps_to_do[r] \ steps_to_do'[r] :
                     /\ executed'[r][step] = 1
                     /\ StepResultIds(step) \subseteq stored_by'[r]
                     /\ StepResultIds(step)
                            \subseteq DOMAIN assets'[this_site[r]]
              /\ \A step \in StepNames :
                     executed'[r][step] > executed[r][step]
                         => /\ pc[r] = "scan"
                            /\ step \in steps_to_do[r]
                            /\ get_step_inputs(this_site[r], step).status
                                   = "ok"
                            /\ \A src \in StepSources(step) :
                                   /\ retrieve_asset(this_site[r], src[1],
                                                     src[2]).raised = "none"
                                   /\ src \in asked'[r]]_vars

\* A run has executed both steps, each once, and has taken both from
\* the steps to do.
C24_Witness ==
    \E r \in Runs :
        /\ pc[r] = "done"
        /\ \A step \in StepNames : executed[r][step] = 1
        /\ steps_to_do[r] = {}
        /\ (StepResultIds("A") \cup StepResultIds("B")) \subseteq stored_by[r]

\* The output items among the input sources of a step.
UpstreamItems(step) ==
    {p[2] : p \in {q \in Range(step_inputs(step)) : q[2] \in OutputItems}}

\* C25 -- Result assets: a store call of a run puts the asset into the
\* store of the run's own site and into no other; every asset a run has
\* stored stands there under the identifier result:<id_hashes[s.o]> of an
\* output s.o of a local step, with that identifier as its id and with the
\* metadata (subjob(s), s.o); and the identifier under which a step asks
\* the producing site for s.o is the one s.o is stored under, so a run that
\* has executed a step has asked the site the plan gives the producer for
\* that identifier, and the asset stored there is s.o.
C25_ResultAssets ==
    /\ [](\A r \in Runs :
              /\ \A id \in stored_by[r] :
                     \E step \in LocalSteps(r) :
                         \E o \in Range(step_outputs(step)) :
                             LET a == assets[this_site[r]][id]
                             IN  /\ id = from_id_hash(
                                             id_hashes[Item(step, o)])
                                 /\ a.id = id
                                 /\ a.job = subjob(step)
                                 /\ a.item = Item(step, o)
              /\ \A step \in StepNames :
                     executed[r][step] > 0 =>
                         \A item \in UpstreamItems(step) :
                             LET src == source(item)
                             IN  /\ src[1] = plan[Split(item)[1]]
                                 /\ src[2] = ResultId(item)
                                 /\ src \in asked[r]
                                 /\ Stored(src[1], src[2])
                                 /\ assets[src[1]][src[2]].item = item)
    /\ [][\A r \in Runs :
              (store_output(r) /\ pc'[r] # "failed")
                  => /\ NextOutput(r).id \notin DOMAIN assets[this_site[r]]
                     /\ assets'[this_site[r]][NextOutput(r).id]
                            = NextOutput(r)
                     /\ \A site \in Sites \ {this_site[r]} :
                            assets'[site] = assets[site]]_vars

\* The run at one site has stored the output y of A, and the run at the
\* other site has executed B with it.
C25_Witness ==
    \E r, q \in Runs :
        /\ this_site[r] # this_site[q]
        /\ ResultId("A.y") \in stored_by[r]
        /\ executed[q]["B"] = 1
        /\ <<this_site[r], ResultId("A.y")>> \in asked[q]

\* C26 -- Back-off: a run goes to sleep only from a scan that has passed
\* every step it still has to do without executing one, the steps passed
\* since the latest execution or sleep being exactly those the run has
\* attempted in vain; a transition that executes a step or stores an output
\* never leads to sleep; when the last output of a step is stored the scan
\* starts again at once, or the run ends if no step is left; and a run ends
\* only with no step left and never out of a sleep.
C26_SleepAfterIdleScan ==
    /\ [](\A r \in Runs :
              /\ scanned[r] \subseteq steps_to_do[r]
              /\ pc[r] = "sleep"
                     => steps_to_do[r] # {} /\ scanned[r] = steps_to_do[r]
              /\ pc[r] = "done" => steps_to_do[r] = {})
    /\ [][\A r \in Runs :
              /\ (pc[r] # "sleep" /\ pc'[r] = "sleep")
                     => /\ pc[r] = "scan"
                        /\ executed'[r] = executed[r]
                        /\ steps_to_do'[r] = steps_to_do[r]
                        /\ \E step \in steps_to_do[r] :
                               /\ scanned'[r] = scanned[r] \cup {step}
                               /\ get_step_inputs(this_site[r], step).status
                                      = "None"
              /\ (executed'[r] # executed[r] \/ stored_by'[r] # stored_by[r])
                     => pc'[r] \in {"store", "scan", "done"}
              /\ steps_to_do'[r] # steps_to_do[r] /\ Started(r)
                     => /\ scanned'[r] = {}
                        /\ pc'[r] = IF steps_to_do'[r] = {} THEN "done"
                                                            ELSE "scan"
              /\ (pc[r] # "done" /\ pc'[r] = "done")
                     => pc[r] # "sleep" /\ steps_to_do'[r] = {}
              /\ pc[r] = "sleep" /\ pc'[r] # "sleep"
                     => pc'[r] = "scan" /\ scanned'[r] = {}]_vars

\* A run with two steps to do has passed both in vain and sleeps.
C26_Witness ==
    \E r \in Runs :
        /\ pc[r] = "sleep"
        /\ steps_to_do[r] = StepNames
        /\ scanned[r] = StepNames
        /\ \A step \in StepNames : executed[r][step] = 0

\* ---------------------------------------------------------------------- C27

\* Thread t has come back from a call of op without an exception.
Returned(t, op) ==
    /\ calls[t].op = op
    /\ calls[t].pc = "idle"
    /\ calls[t].raised = "none"

\* The data and metadata that poc AssetStore.store writes for asset a.
Written(a) == <<a.data, Metadata(a.job, a.item)>>

\* C27 (as stated): whatever stores run at the same time, a retrieve that
\* returns gives a complete asset: the asset of one store call, or in the
\* poc store the data of one store call with the metadata of that same call.
C27_NeverPartial ==
    \A t \in Threads :
        /\ Returned(t, "retrieve") => calls[t].asset \in written.components
        /\ Returned(t, "poc_retrieve") =>
               \E a \in written.poc :
                   <<calls[t].data, calls[t].metadata>> = Written(a)

\* C27 (what the code guarantees): a retrieve of the store of components
\* returns the asset of one store call; a retrieve of the poc store returns
\* data some store call wrote with metadata some store call wrote, never
\* data without metadata, and these are the data and metadata of the same
\* call when no second store call has written under the identifier.
C27_CompleteUnlessOverwritten ==
    \A t \in Threads :
        /\ Returned(t, "retrieve") => calls[t].asset \in written.components
        /\ Returned(t, "poc_retrieve") =>
               /\ \E a \in written.poc : calls[t].data = Written(a)[1]
               /\ \E a \in written.poc : calls[t].metadata = Written(a)[2]
               /\ Cardinality(written.poc) = 1 =>
                      \E a \in written.poc :
                          <<calls[t].data, calls[t].metadata>> = Written(a)

\* C27 witness: a retrieve of the poc store read the data that the only
\* store call so far had written, found no metadata yet because that call
\* is between its two writes, and reported not-found.
C27_Witness ==
    \E t, u \in Threads :
        /\ calls[t].op = "poc_retrieve"
        /\ calls[t].pc = "idle"
        /\ calls[t].raised = "KeyError"
        /\ calls[t].data # ""
        /\ calls[u].pc = "poc_set_metadata"
        /\ Cardinality(written.poc) = 1

\* ---------------------------------------------------------------------- C28

\* C28 (as stated): store calls for one identifier do not interleave, so no
\* step of any store call replaces what is stored under an identifier that
\* is already present, in either asset store.
C28_NeverOverwritten ==
    [][/\ \A id \in DOMAIN assets[StoreSite] :
              assets'[StoreSite][id] = assets[StoreSite][id]
       /\ \A name \in DOMAIN poc_assets :
              poc_assets'[name] = poc_assets[name]
       /\ \A name \in DOMAIN poc_metadata :
              poc_metadata'[name] = poc_metadata[name]]_vars

\* C28 (what the code guarantees): a store call whose existence check runs
\* when the identifier is present ends with KeyError at that check and
\* writes nothing; only a call whose check ran before the identifier was
\* there goes on to write.
C28_CheckedStoreRefused ==
    [][\A t \in Threads :
          /\ thread_store_check(t) /\ calls[t].id \in DOMAIN assets[StoreSite]
                 => /\ calls'[t].pc = "idle"
                    /\ calls'[t].raised = "KeyError"
                    /\ assets' = assets
          /\ poc_store_check(t) /\ calls[t].id \in DOMAIN poc_assets
                 => /\ calls'[t].pc = "idle"
                    /\ calls'[t].raised = "KeyError"
                    /\ poc_assets' = poc_assets
                    /\ poc_metadata' = poc_metadata]_vars

\* C28 witness: two store calls for one identifier with different assets
\* are both past their checks, and one of them has already inserted.
C28_Witness ==
    \E t, u \in Threads :
        /\ calls[t].op = "store"
        /\ calls[t].pc = "idle"
        /\ calls[t].raised = "none"
        /\ calls[u].pc = "insert"
        /\ calls[u].id = calls[t].id
        /\ calls[u].arg # calls[t].arg
        /\ assets[StoreSite][calls[t].id] = calls[t].arg

\* ---------------------------------------------------------------------- C29

\* The lease of the replica of site has not expired.
LeaseLive(site) == now < replica[site].lease_expiry

\* C29 -- An update() of a replica whose lease is still live returns at
\* once: no request goes to the replication server, the replica keeps its
\* objects, its last_seq and its lease_expiry, no callback is invoked, and
\* the registry is untouched.
C29_LiveLeaseReturns ==
    [][\A site \in Sites :
           (update(site) /\ LeaseLive(site)) =>
               /\ api'.id # "/updates"
               /\ replica'[site].objects = replica[site].objects
               /\ replica'[site].last_seq = replica[site].last_seq
               /\ replica'[site].lease_expiry = replica[site].lease_expiry
               /\ callbacks' = callbacks
               /\ reg_archive' = reg_archive]_vars

\* C29 witness: update() has just returned without a request although the
\* registry has events that no replica has seen; every lease is live and
\* every site has a callback that the new events would have changed.
C29_Witness ==
    /\ api.op = "update"
    /\ api.id = ""
    /\ \A site \in Sites :
           /\ LeaseLive(site)
           /\ replica[site].last_seq < Len(reg_archive)
           /\ replica[site].objects # reg_objects
           /\ callbacks[site] # <<>>

\* ---------------------------------------------------------------------- C30

\* Asset a has the identifier of a stored asset and another payload.
OtherPayloadStored(a) ==
    /\ a.id \in DOMAIN assets[StoreSite]
    /\ assets[StoreSite][a.id].data # a.data

\* C30 -- A store of an asset whose identifier is already present with a
\* different payload fails with KeyError and leaves the store unchanged;
\* what is stored under an identifier is never replaced by a later call, and
\* a retrieve that succeeds afterwards returns that stored asset, data and
\* metadata.
C30_DifferentPayloadRefused ==
    /\ [][\A a \in CallAssets :
              (call_store(a) /\ OtherPayloadStored(a)) =>
                  /\ api'.raised = "KeyError"
                  /\ assets' = assets]_vars
    /\ [][\A id \in DOMAIN assets[StoreSite] :
              /\ id \in DOMAIN assets'[StoreSite]
              /\ assets'[StoreSite][id] = assets[StoreSite][id]]_vars
    /\ [][\A id \in DOMAIN assets[StoreSite], requester \in Sites :
              (call_retrieve(id, requester) /\ api'.raised = "none") =>
                  /\ api'.asset = assets[StoreSite][id]
                  /\ api'.asset.data = assets[StoreSite][id].data
                  /\ api'.asset.job = assets[StoreSite][id].job
                  /\ api'.asset.item = assets[StoreSite][id].item]_vars

\* C30 witness: the latest call was a store of an asset with the identifier
\* and the metadata of the stored asset and another payload; it raised
\* KeyError and the asset stored first is still there.
C30_Witness ==
    /\ api.op = "store"
    /\ api.raised = "KeyError"
    /\ api.id \in DOMAIN assets[StoreSite]
    /\ assets[StoreSite][api.id].data # api.asset.data
    /\ assets[StoreSite][api.id].job = api.asset.job
    /\ assets[StoreSite][api.id].item = api.asset.item

\* ---------------------------------------------------------------------- C31

\* The thread of run r has left the while loop and returned from run().
TerminatedNormally(r) == Accepted(r) /\ pc[r] = "done"

\* C31 -- When a job run terminates normally its set of steps to do is
\* empty, and for every step the plan assigns to its site and every output
\* the step declares, the asset 'result:<id_hash(step.output)>' is in the
\* store of the site, with that item in its metadata.
C31_OutputsStoredAtEnd ==
    \A r \in Runs :
        TerminatedNormally(r) =>
            /\ steps_to_do[r] = {}
            /\ \A s \in LocalSteps(r) :
                   \A o \in Range(step_outputs(s)) :
                       /\ Stored(this_site[r], ResultId(Item(s, o)))
                       /\ assets[this_site[r]][ResultId(Item(s, o))].item
                              = Item(s, o)

\* C31 witness: a run with both steps at its site, three declared outputs
\* in all, has terminated normally.
C31_Witness ==
    \E r \in Runs :
        /\ TerminatedNormally(r)
        /\ LocalSteps(r) = StepNames
        /\ stored_by[r] # {}

\* ---------------------------------------------------------------------- C32

\* The store of the site after asset a is added to it.
Grown(site, a) ==
    /\ a.id \notin DOMAIN assets[site]
    /\ DOMAIN assets'[site] = DOMAIN assets[site] \cup {a.id}
    /\ assets'[site][a.id] = a
    /\ \A id \in DOMAIN assets[site] : assets'[site][id] = assets[site][id]
    /\ \A other \in Sites \ {site} : assets'[other] = assets[other]

ComputeRequest(step) ==
    <<location(compute_asset_id(step)), compute_asset_id(step)>>

\* No request for an input of step ends the thread of run r: every input is
\* there, or one is not yet available.
InputsSettled(r, step) ==
    get_step_inputs(this_site[r], step).status \in {"ok", "None"}

\* C33 -- On every attempt of a step in which the requests for the inputs
\* return, the run asks location(compute_asset_id) for the compute asset of
\* the step, also when an input is not yet available.  When that request
\* fails (asset not found, access denied, not a compute asset) the run ends
\* with the exception: the step is not executed, nothing is stored, and the
\* failed run asks nothing again and executes none of its remaining steps.
C33_ComputeAssetFailureFatal ==
    /\ [][\A r \in Runs, step \in StepNames :
              (attempt(r, step) /\ InputsSettled(r, step))
                  => ComputeRequest(step) \in asked'[r]]_vars
    /\ [][\A r \in Runs, step \in StepNames :
              (/\ attempt(r, step)
               /\ InputsSettled(r, step)
               /\ retrieve_compute_asset(this_site[r],
                                         compute_asset_id(step)) # "none")
                  => /\ pc'[r] = "failed"
                     /\ error'[r] =
                            retrieve_compute_asset(this_site[r],
                                                   compute_asset_id(step))
                     /\ error'[r] \in {"KeyError", "RuntimeError",
                                       "TypeError"}
                     /\ executed' = executed
                     /\ steps_to_do' = steps_to_do
                     /\ step \in steps_to_do'[r]
                     /\ assets' = assets]_vars
    /\ [][\A r \in Runs :
              pc[r] = "failed"
                  => /\ pc'[r] = "failed"
                     /\ error'[r] = error[r]
                     /\ executed'[r] = executed[r]
                     /\ asked'[r] = asked[r]
                     /\ steps_to_do'[r] = steps_to_do[r]]_vars

\* Run r has ended on the request for a compute asset with exception exc,
\* with steps left to do and none executed.
FailedOnCompute(r, exc) ==
    /\ Accepted(r)
    /\ pc[r] = "failed"
    /\ error[r] = exc
    /\ steps_to_do[r] # {}
    /\ executed[r] = [s \in StepNames |-> 0]
    /\ \E step \in steps_to_do[r] : ComputeRequest(step) \in asked[r]

\* C33 witness: one run has ended because the compute asset was not found,
\* and a later one because a data asset was stored under its identifier.
C33_Witness ==
    \E r, q \in Runs :
        /\ FailedOnCompute(r, "KeyError")
        /\ FailedOnCompute(q, "TypeError")

\* A run at the site that runs step B only has ended because access to the
\* compute asset was denied, although the input of B was not yet available.
C33_WitnessDenied ==
    \E r \in Runs :
        /\ FailedOnCompute(r, "RuntimeError")
        /\ steps_to_do[r] = {"B"}
        /\ ~Stored(plan["A"], ResultId(Item("A", "y")))
        /\ asked[r] # {ComputeRequest("B")}

\* ---------------------------------------------------------------------- C34

\* The items whose permissions decide the legality of job j at site: for
\* every step of j that the plan assigns to site, its inputs, the sources
\* of its inputs, its compute binding and its outputs.
DecidingItems(site, j) ==
    UNION {{Item(step, p[1]) : p \in Range(step_inputs(step))}
               \cup {p[2] : p \in Range(step_inputs(step))}
               \cup {step}
               \cup {Item(step, o) : o \in Range(step_outputs(step))} :
           step \in {s \in j : plan[s] = site}}

\* C34 -- The outcome of the legality check of a site depends only on the
\* permissions of the items of the steps assigned to that site (inputs,
\* compute binding, outputs) and of the sources of those inputs: a job that
\* differs from another in the permissions of an item that is none of these
\* gets the same verdict at the site.  Jobs that differ in several such
\* items are joined by a chain of such single differences, every job of
\* which is checked.
C34_LegalityLocalItemsOnly ==
    [][\A item \in JobItems, perm \in PermValues :
           (/\ check_legality_again(item, perm)
            /\ item \notin DecidingItems(legality.site, legality.job))
               => legality'.verdict = legality.verdict]_vars

\* C34 witness: the job is legal at a site that runs one of its steps and
\* not the other, after the permissions of an item of the other step, which
\* is no source of a local input, were taken away.
C34_Witness ==
    /\ legality.verdict
    /\ legality.changed \in JobItems
    /\ legality.changed \notin DecidingItems(legality.site, legality.job)
    /\ legality.perms[legality.changed] = {}
    /\ legality.job = StepNames
    /\ \E step \in StepNames : plan[step] = legality.site
    /\ \E step \in StepNames : plan[step] # legality.site
    /\ access[legality.site] # {}

\* ---------------------------------------------------------------------- C35

\* The objects of the insert events of the archive: what was ever accepted.
Inserted == {reg_archive[i].object : i \in {k \in DOMAIN reg_archive :
                                             reg_archive[k].op = "insert"}}

\* C35 -- A rejected registration leaves the registry unchanged: when
\* register_party fails (duplicate) or register_site fails (duplicate site,
\* unregistered owner, unregistered admin) the set of registered objects is
\* the same as before the call and no event is appended to the archive; an
\* event is appended only by a call that succeeds, and a replica holds only
\* objects of insert events, so none ever observes a rejected object.
C35_RejectedRegistrationNoEffect ==
    /\ [][\A description \in RejectedParties :
              (register_party(description) /\ api'.raised # "none")
                  => /\ Registry_in_store(reg_objects, "party",
                                          description.id)
                     /\ reg_objects' = reg_objects
                     /\ reg_archive' = reg_archive
                     /\ replica' = replica]_vars
    /\ [][\A a \in RejectedSiteArgs :
              (register_site(a) /\ api'.raised # "none")
                  => /\ \/ MakeSite(a).raised # "none"
                        \/ Registry_in_store(reg_objects, "site", a[1][1])
                        \/ ~Registry_in_store(reg_objects, "party", a[1][2])
                        \/ ~Registry_in_store(reg_objects, "party", a[1][3])
                     /\ reg_objects' = reg_objects
                     /\ reg_archive' = reg_archive
                     /\ replica' = replica]_vars
    /\ [][reg_archive' # reg_archive => api'.raised = "none"]_vars
    /\ [](\A site \in Sites : replica[site].objects \subseteq Inserted)

\* C35 witness: the registration of a site whose admin is not registered
\* was turned down, while a replica that has fetched every event holds the
\* registered party and no site.
C35_Witness ==
    /\ api.op = "register_site"
    /\ api.raised = "RuntimeError"
    /\ ~Registry_in_store(reg_objects, "site", api.id)
    /\ Registry_in_store(reg_objects, "party", Party1)
    /\ ~Registry_in_store(reg_objects, "party", Party2)
    /\ \E site \in Sites :
           /\ replica[site].last_seq = Len(reg_archive)
           /\ replica[site].last_seq > 0
           /\ replica[site].objects = reg_objects

\* The registration of a party under a registered identifier was turned
\* down, and a replica that has fetched every event holds the party with
\* the key it was registered with first, here the second of the keys.
C35_WitnessDuplicate ==
    /\ api.op = "register_party"
    /\ api.raised = "RuntimeError"
    /\ \E site \in Sites :
           /\ replica[site].last_seq = Len(reg_archive)
           /\ replica[site].objects = {PartyDescription(Party1, "k2")}

====
